---- MODULE Spec2Model ----
(***************************************************************************)
(* A model of dusty-room: the archive loader (src/wad/file.rs), the stack  *)
(* overlay (src/wad/wad.rs), lump names and cursors (src/wad/name.rs,      *)
(* src/wad/cursor.rs), the asset banks (src/assets) and maps (src/map).    *)
(*                                                                         *)
(* Bytes are integers 0..255; a name is a sequence of character codes; an  *)
(* archive is the sequence of its bytes, parsed as the code parses it.     *)
(* Directory indices are 0-based as in the code; TLA+ sequences are        *)
(* 1-based, so entry i of the code is lump_locations[i + 1].               *)
(***************************************************************************)
EXTENDS Integers, Sequences, FiniteSets, TLC

VARIABLES
    file,       \* SpecFile: the archive under test, NoFile before load_raw
    wad,        \* Spec: the caller's current stack, NoWad before Wad::load
    stacks,     \* SpecStacks: the stacks the caller holds
    last,       \* the last operation and its result
    build,      \* SpecPatch: whether the build checks integer overflow
    colState,   \* SpecPatch: position of Patch::read_column
    last_y_offset, \* SpecPatch: read_column's last_y_offset (<<>> is None)
    posts,      \* SpecPatch: number of posts pushed so far
    bank,       \* SpecPalette: the caller's PaletteBank, None before load
    cursor      \* SpecCursor: the caller's Cursor, None when it holds none

vars == <<file, wad, stacks, last, build, colState, last_y_offset, posts, bank, cursor>>

-----------------------------------------------------------------------------
(* Bounds.                                                                 *)

MaxLumps == 3
MaxPatches == 3
MaxStacks == 3
MaxPosts == 260

-----------------------------------------------------------------------------
(* Program constants.                                                      *)

HeaderLen == 12
EntryLen == 16
NameLen == 8
U16Max == 65535
ColumnEnd == 255

-----------------------------------------------------------------------------
(* Little-endian scalars and 8-byte names.                                 *)

Le32(n) ==
    << n % 256, (n \div 256) % 256, (n \div 65536) % 256, (n \div 16777216) % 256 >>

from_le_bytes(b) == b[1] + 256 * b[2] + 65536 * b[3] + 16777216 * b[4]

\* raw[from .. to) with 0-based bounds, as a Rust slice.
Slice(raw, from, to) == SubSeq(raw, from + 1, to)

RECURSIVE Pad(_, _)
Pad(name, n) == IF Len(name) >= n THEN name ELSE Pad(Append(name, 0), n)

\* Position of the first NUL of an 8-byte array, or its length.
RECURSIVE nul_position(_, _)
nul_position(raw8, i) ==
    IF i > Len(raw8) THEN Len(raw8)
    ELSE IF raw8[i] = 0 THEN i - 1
    ELSE nul_position(raw8, i + 1)

\* A parse_name that keeps the padding.
parse_name_unstripped(raw8) == raw8

parse_name(raw8) ==
    Slice(raw8, 0, nul_position(raw8, 1))

LegalChar(ch) ==
    \/ ch \in 65 .. 90
    \/ ch \in 48 .. 57
    \/ ch \in {91, 93, 45, 95, 92}

is_legal(name) ==
    LET good_length == Len(name) # 0 /\ Len(name) <= NameLen
        has_illegal_char == \E i \in 1 .. Len(name) : ~LegalChar(name[i])
    IN  good_length /\ ~has_illegal_char

\* A make_ascii_uppercase that leaves the name as the caller spelled it.
make_ascii_uppercase_noop(name) == name

make_ascii_uppercase(name) ==
    [i \in 1 .. Len(name) |-> IF name[i] \in 97 .. 122 THEN name[i] - 32 ELSE name[i]]

-----------------------------------------------------------------------------
(* Results.  Ok(None), Ok(Some(v)), Ok(v), Err(e) and a panic.             *)

None == [tag |-> "None"]
Some(v) == [tag |-> "Some", val |-> v]
Ok(v) == [tag |-> "Ok", val |-> v]
Panic == [tag |-> "Panic"]
Malformed(path, desc, subject) ==
    [tag |-> "Err", err |-> "Malformed", path |-> path, desc |-> desc, subject |-> subject]
WrongType(path, expected) ==
    [tag |-> "Err", err |-> "WrongType", path |-> path, expected |-> expected]
IoError(path) ==
    [tag |-> "Err", err |-> "Io", path |-> path]
StringErr(desc, subject) ==
    [tag |-> "Err", desc |-> desc, subject |-> subject]

-----------------------------------------------------------------------------
(* WadFile::read_header, read_directory, load_raw.                         *)

read_header(raw) ==
    IF Len(raw) < HeaderLen THEN StringErr("not a WAD file", <<>>)
    ELSE LET magic == Slice(raw, 0, 4)
             lump_count == from_le_bytes(Slice(raw, 4, 8))
             directory_offset == from_le_bytes(Slice(raw, 8, 12))
         IN  IF magic = <<73, 87, 65, 68>>
               THEN [tag |-> "Ok", kind |-> "Iwad", lump_count |-> lump_count,
                     directory_offset |-> directory_offset]
             ELSE IF magic = <<80, 87, 65, 68>>
               THEN [tag |-> "Ok", kind |-> "Pwad", lump_count |-> lump_count,
                     directory_offset |-> directory_offset]
             ELSE StringErr("not a WAD file", <<>>)

\* The loop of read_directory: i entries read so far, cursor at byte pos.
RECURSIVE read_entries(_, _, _, _, _)
read_entries(raw, lump_count, pos, i, lump_locations) ==
    IF i >= lump_count THEN [tag |-> "Ok", lump_locations |-> lump_locations]
    ELSE IF Len(raw) - pos < EntryLen
      THEN StringErr("lump directory has bad count", lump_count)
    ELSE LET entry == Slice(raw, pos, pos + EntryLen)
             offset == from_le_bytes(Slice(entry, 0, 4))
             size == from_le_bytes(Slice(entry, 4, 8))
             name == parse_name(Slice(entry, 8, 16))
         IN  IF ~is_legal(name) THEN StringErr("bad lump name", name)
             ELSE IF offset >= Len(raw) THEN StringErr("at bad offset", name)
             ELSE IF offset + size >= Len(raw) THEN StringErr("has bad size", name)
             ELSE read_entries(raw, lump_count, pos + EntryLen, i + 1,
                      Append(lump_locations,
                             [offset |-> offset, size |-> size, name |-> name]))

\* The name -> indices map, built in directory order.
RECURSIVE build_indices(_, _, _)
build_indices(lump_locations, index, lump_indices) ==
    IF index >= Len(lump_locations) THEN lump_indices
    ELSE LET name == lump_locations[index + 1].name
         IN  build_indices(lump_locations, index + 1,
                 IF name \in DOMAIN lump_indices
                   THEN [lump_indices EXCEPT ![name] = Append(@, index)]
                   ELSE (name :> <<index>>) @@ lump_indices)

read_directory(raw, lump_count, directory_offset) ==
    IF directory_offset > Len(raw)
      THEN StringErr("lump directory at bad offset", directory_offset)
    ELSE LET entries == read_entries(raw, lump_count, directory_offset, 0, <<>>)
         IN  IF entries.tag = "Err" THEN entries
             ELSE [tag |-> "Ok",
                   lump_locations |-> entries.lump_locations,
                   lump_indices |-> build_indices(entries.lump_locations, 0, <<>>)]

\* A load_raw_impl that reads the directory before it looks at the magic.
load_raw_impl_directory_first(path, raw) ==
    IF Len(raw) < HeaderLen THEN StringErr("not a WAD file", <<>>)
    ELSE LET directory == read_directory(raw, from_le_bytes(Slice(raw, 4, 8)),
                                         from_le_bytes(Slice(raw, 8, 12)))
             header == read_header(raw)
         IN  IF directory.tag = "Err" THEN directory
             ELSE IF header.tag = "Err" THEN header
             ELSE Ok([path |-> path,
                      raw |-> raw,
                      kind |-> header.kind,
                      lump_locations |-> directory.lump_locations,
                      lump_indices |-> directory.lump_indices])

load_raw_impl(path, raw) ==
    LET header == read_header(raw)
    IN  IF header.tag = "Err" THEN header
        ELSE LET directory ==
                     read_directory(raw, header.lump_count, header.directory_offset)
             IN  IF directory.tag = "Err" THEN directory
                 ELSE Ok([path |-> path,
                          raw |-> raw,
                          kind |-> header.kind,
                          lump_locations |-> directory.lump_locations,
                          lump_indices |-> directory.lump_indices])

load_raw(path, raw) ==
    LET result == load_raw_impl(path, raw)
    IN  IF result.tag = "Err" THEN Malformed(path, result.desc, result.subject)
        ELSE result

-----------------------------------------------------------------------------
(* WadFile: kind check and lookups in one archive.                         *)

expect_kind(self, expected) ==
    IF self.kind = expected THEN Ok(<<>>) ELSE WrongType(self.path, expected)

WadFile_error(self, desc, subject) == Malformed(self.path, desc, subject)

\* A read_lump whose slice runs one byte past the entry.
read_lump_one_past(self, index) ==
    LET location == self.lump_locations[index + 1]
    IN  [file |-> self.path,
         name |-> location.name,
         data |-> Slice(self.raw, location.offset, location.offset + location.size + 1)]

read_lump(self, index) ==
    LET location == self.lump_locations[index + 1]
    IN  [file |-> self.path,
         name |-> location.name,
         data |-> Slice(self.raw, location.offset, location.offset + location.size)]

\* Lumps::new(indices.map(read_lump)); the range is from .. to (exclusive).
read_lumps(self, from, to) ==
    IF from >= to \/ to > Len(self.lump_locations) THEN Panic
    ELSE Ok([i \in 1 .. (to - from) |-> read_lump(self, from + i - 1)])

\* Vec::dedup_by: drops every element whose data equals its predecessor's.
RECURSIVE dedup_by_data(_)
dedup_by_data(lumps) ==
    IF Len(lumps) <= 1 THEN lumps
    ELSE LET front == dedup_by_data(SubSeq(lumps, 1, Len(lumps) - 1))
             l1 == lumps[Len(lumps)]
         IN  IF l1.data = lumps[Len(lumps) - 1].data THEN front
             ELSE Append(front, l1)

\* A try_lump_index that resolves tolerated duplicates to the first index.
try_lump_index_first(self, name) ==
    LET upper == IF \E i \in 1 .. Len(name) : name[i] \in 97 .. 122
                   THEN make_ascii_uppercase(name) ELSE name
    IN  IF upper \notin DOMAIN self.lump_indices THEN None
        ELSE LET indices == self.lump_indices[upper]
             IN  IF Len(indices) = 1 THEN Some(indices[1])
                 ELSE LET lumps == dedup_by_data(
                                  [i \in 1 .. Len(indices) |-> read_lump(self, indices[i])])
                      IN  IF Len(lumps) = 1 /\ Len(lumps[1].data) # 0
                            THEN Some(indices[1])
                          ELSE WadFile_error(self, "found times", <<upper, Len(indices)>>)

try_lump_index(self, name) ==
    LET upper == IF \E i \in 1 .. Len(name) : name[i] \in 97 .. 122
                   THEN make_ascii_uppercase(name) ELSE name
    IN  IF upper \notin DOMAIN self.lump_indices THEN None
        ELSE LET indices == self.lump_indices[upper]
             IN  IF Len(indices) = 1 THEN Some(indices[1])
                 ELSE LET lumps == dedup_by_data(
                                  [i \in 1 .. Len(indices) |-> read_lump(self, indices[i])])
                      IN  IF Len(lumps) = 1 /\ Len(lumps[1].data) # 0
                            THEN Some(indices[Len(indices)])
                          ELSE WadFile_error(self, "found times", <<upper, Len(indices)>>)

WadFile_try_lump(self, name) ==
    LET index == try_lump_index(self, name)
    IN  IF index.tag # "Some" THEN index
        ELSE Some(read_lump(self, index.val))

WadFile_lump(self, name) ==
    LET found == WadFile_try_lump(self, name)
    IN  IF found.tag = "Err" THEN found
        ELSE IF found.tag = "None" THEN WadFile_error(self, "missing", <<name>>)
        ELSE Ok(found.val)

WadFile_try_lumps_following(self, start, size) ==
    IF ~(size > 0) THEN Panic
    ELSE LET start_index == try_lump_index(self, start)
         IN  IF start_index.tag # "Some" THEN start_index
             ELSE IF start_index.val + size >= Cardinality(DOMAIN self.lump_indices)
               THEN WadFile_error(self, "missing lumps", <<start>>)
             ELSE LET lumps == read_lumps(self, start_index.val, start_index.val + size)
                  IN  IF lumps.tag = "Panic" THEN Panic ELSE Some(lumps.val)

WadFile_lumps_following(self, start, size) ==
    LET found == WadFile_try_lumps_following(self, start, size)
    IN  IF found.tag \in {"Err", "Panic"} THEN found
        ELSE IF found.tag = "None" THEN WadFile_error(self, "missing", <<start>>)
        ELSE Ok(found.val)

\* A try_lumps_between whose range stops before the end marker.
WadFile_try_lumps_between_exclusive(self, start, end) ==
    LET start_index == try_lump_index(self, start)
    IN  IF start_index.tag = "Err" THEN start_index
        ELSE LET end_index == try_lump_index(self, end)
             IN  IF end_index.tag = "Err" THEN end_index
                 ELSE IF start_index.tag = "None" /\ end_index.tag = "None" THEN None
                 ELSE IF end_index.tag = "None"
                   THEN WadFile_error(self, "without", <<start, end>>)
                 ELSE IF start_index.tag = "None"
                   THEN WadFile_error(self, "without", <<end, start>>)
                 ELSE IF start_index.val > end_index.val
                   THEN WadFile_error(self, "after", <<start, end>>)
                 ELSE LET lumps == read_lumps(self, start_index.val, end_index.val)
                      IN  IF lumps.tag = "Panic" THEN Panic ELSE Some(lumps.val)

WadFile_try_lumps_between(self, start, end) ==
    LET start_index == try_lump_index(self, start)
    IN  IF start_index.tag = "Err" THEN start_index
        ELSE LET end_index == try_lump_index(self, end)
             IN  IF end_index.tag = "Err" THEN end_index
                 ELSE IF start_index.tag = "None" /\ end_index.tag = "None" THEN None
                 ELSE IF end_index.tag = "None"
                   THEN WadFile_error(self, "without", <<start, end>>)
                 ELSE IF start_index.tag = "None"
                   THEN WadFile_error(self, "without", <<end, start>>)
                 ELSE IF start_index.val > end_index.val
                   THEN WadFile_error(self, "after", <<start, end>>)
                 ELSE LET lumps == read_lumps(self, start_index.val, end_index.val + 1)
                      IN  IF lumps.tag = "Panic" THEN Panic ELSE Some(lumps.val)

\* A lumps_between that reports every failure as a missing block.
WadFile_lumps_between_missing(self, start, end) ==
    LET found == WadFile_try_lumps_between(self, start, end)
    IN  IF found.tag = "Panic" THEN found
        ELSE IF found.tag = "Some" THEN Ok(found.val)
        ELSE WadFile_error(self, "and missing", <<start, end>>)

WadFile_lumps_between(self, start, end) ==
    LET found == WadFile_try_lumps_between(self, start, end)
    IN  IF found.tag \in {"Err", "Panic"} THEN found
        ELSE IF found.tag = "None" THEN WadFile_error(self, "and missing", <<start, end>>)
        ELSE Ok(found.val)

-----------------------------------------------------------------------------
(* Input archives.  An archive is written as header, lump data and         *)
(* directory, and parsed back from its bytes by load_raw.                  *)

EntryBytes(offset, size, name) == Le32(offset) \o Le32(size) \o Pad(name, NameLen)

RECURSIVE DirectoryBytes(_, _)
DirectoryBytes(entries, base) ==
    IF entries = <<>> THEN <<>>
    ELSE EntryBytes(base + Head(entries).at, Head(entries).size, Head(entries).name)
             \o DirectoryBytes(Tail(entries), base)

Encode(magic, lump_count, directory_offset, body) ==
    magic \o Le32(lump_count) \o Le32(directory_offset) \o body

MagicIwad == <<73, 87, 65, 68>>
MagicPwad == <<80, 87, 65, 68>>
MagicJunk == <<75, 73, 76, 76>>

\* The usual layout: lump data after the header, directory at the end.
DataFirst(magic, data, entries) ==
    Encode(magic, Len(entries), HeaderLen + Len(data),
           data \o DirectoryBytes(entries, HeaderLen))

\* Directory after the header, lump data at the end of the file.
DirectoryFirst(magic, data, entries) ==
    Encode(magic, Len(entries), HeaderLen,
           DirectoryBytes(entries, HeaderLen + EntryLen * Len(entries)) \o data)

LumpData == <<1, 1, 2>>
NameA == <<65>>
NameB == <<66>>
NameC == <<67>>
LowerA == <<97>>

Entries(names, slices) ==
    UNION {[1 .. n -> [name : names, at : {sl[1] : sl \in slices}, size : {0, 1}]] :
               n \in 0 .. MaxLumps}

\* Entries over the data <<1, 1, 2>>: A is empty, one of the two equal
\* bytes or the other byte; B is the other byte.
DataFirstEntries ==
    {es \in Entries({NameA, NameB}, {<<0, 0>>, <<0, 1>>, <<1, 1>>, <<2, 1>>}) :
        \A i \in DOMAIN es :
            /\ es[i].size = 0 => es[i].at = 0
            /\ es[i].name = NameB => (es[i].at = 2 /\ es[i].size = 1)}

\* Entries that end at or beyond the end of the file.
DirectoryFirstEntries ==
    {es \in Entries({NameA}, {<<0, 1>>, <<2, 1>>, <<3, 0>>}) :
        \A i \in DOMAIN es : (es[i].size = 0) = (es[i].at = 3)}

GoodBody == LumpData \o DirectoryBytes(<<[name |-> NameA, at |-> 0, size |-> 1]>>, HeaderLen)

\* Archives the loader must reject, and archives with a wrong magic.
MalformedInputs ==
    {<<>>, SubSeq(DataFirst(MagicIwad, LumpData, <<>>), 1, HeaderLen - 1)}
    \cup {Encode(MagicJunk, c, d, b) :
              c \in {0, 1, 2}, d \in {HeaderLen + 3, 999},
              b \in {<<>>, GoodBody}}
    \cup {Encode(MagicIwad, c, d, GoodBody) : c \in {1, 2}, d \in {HeaderLen + 3, 999}}
    \cup {DataFirst(MagicPwad, LumpData, <<[name |-> n, at |-> a, size |-> sz]>>) :
              n \in {LowerA, <<>>, <<200>>, <<65, 66, 67, 68, 69, 70, 71, 72>>},
              a \in {0, 999}, sz \in {1, 999}}

Inputs ==
    {DataFirst(MagicIwad, LumpData, es) : es \in DataFirstEntries}
    \cup {DirectoryFirst(MagicPwad, LumpData, es) : es \in DirectoryFirstEntries}
    \cup MalformedInputs

-----------------------------------------------------------------------------
(* SpecFile: one archive is loaded from raw bytes and then queried.        *)

InputPath == "in.wad"
LookupNames == {NameA, NameB, NameC, LowerA}
Sizes == 0 .. MaxLumps + 1

Idle ==
    /\ wad = None
    /\ stacks = <<>>
    /\ build = "checked"
    /\ colState = "idle"
    /\ last_y_offset = <<>>
    /\ posts = 0
    /\ bank = None
    /\ cursor = None

InitFile ==
    /\ file = None
    /\ last = [op |-> "init"]
    /\ Idle

FileLoadRaw ==
    /\ file = None
    /\ \E raw \in Inputs :
           LET result == load_raw(InputPath, raw)
           IN  /\ file' = IF result.tag = "Ok" THEN result ELSE file
               /\ last' = [op |-> "load_raw", raw |-> raw,
                           res |-> IF result.tag = "Ok" THEN Ok(<<>>) ELSE result]
    /\ UNCHANGED <<cursor, bank, wad, stacks, build, colState, last_y_offset, posts>>

FileTryLump ==
    /\ file.tag = "Ok"
    /\ \E name \in LookupNames :
           last' = [op |-> "try_lump", name |-> name,
                    res |-> WadFile_try_lump(file.val, name)]
    /\ UNCHANGED <<cursor, bank, file, wad, stacks, build, colState, last_y_offset, posts>>

FileLump ==
    /\ file.tag = "Ok"
    /\ \E name \in LookupNames :
           last' = [op |-> "lump", name |-> name,
                    res |-> WadFile_lump(file.val, name)]
    /\ UNCHANGED <<cursor, bank, file, wad, stacks, build, colState, last_y_offset, posts>>

FileTryLumpsFollowing ==
    /\ file.tag = "Ok"
    /\ \E start \in LookupNames, size \in Sizes :
           last' = [op |-> "try_lumps_following", name |-> start, size |-> size,
                    res |-> WadFile_try_lumps_following(file.val, start, size)]
    /\ UNCHANGED <<cursor, bank, file, wad, stacks, build, colState, last_y_offset, posts>>

FileLumpsFollowing ==
    /\ file.tag = "Ok"
    /\ \E start \in LookupNames, size \in Sizes :
           last' = [op |-> "lumps_following", name |-> start, size |-> size,
                    res |-> WadFile_lumps_following(file.val, start, size)]
    /\ UNCHANGED <<cursor, bank, file, wad, stacks, build, colState, last_y_offset, posts>>

FileTryLumpsBetween ==
    /\ file.tag = "Ok"
    /\ \E start \in LookupNames, end \in LookupNames :
           last' = [op |-> "try_lumps_between", name |-> start, end |-> end,
                    res |-> WadFile_try_lumps_between(file.val, start, end)]
    /\ UNCHANGED <<cursor, bank, file, wad, stacks, build, colState, last_y_offset, posts>>

FileLumpsBetween ==
    /\ file.tag = "Ok"
    /\ \E start \in LookupNames, end \in LookupNames :
           last' = [op |-> "lumps_between", name |-> start, end |-> end,
                    res |-> WadFile_lumps_between(file.val, start, end)]
    /\ UNCHANGED <<cursor, bank, file, wad, stacks, build, colState, last_y_offset, posts>>

NextFile ==
    \/ FileLoadRaw
    \/ FileTryLump
    \/ FileLump
    \/ FileTryLumpsFollowing
    \/ FileLumpsFollowing
    \/ FileTryLumpsBetween
    \/ FileLumpsBetween

SpecFile == InitFile /\ [][NextFile]_vars

-----------------------------------------------------------------------------
(* Properties of one archive (SpecFile).                                   *)

Loaded == file.tag = "Ok"
Directory == file.val.lump_locations
Count == Len(Directory)

\* The bytes buffer[offset .. offset + size] of directory entry i (0-based).
EntryData(i) ==
    [k \in 1 .. Directory[i + 1].size |-> file.val.raw[Directory[i + 1].offset + k]]

EntryView(i) ==
    [file |-> file.val.path, name |-> Directory[i + 1].name, data |-> EntryData(i)]

Upper(name) ==
    [i \in 1 .. Len(name) |-> IF name[i] \in 97 .. 122 THEN name[i] - 32 ELSE name[i]]

Matches(name) == {i \in 0 .. Count - 1 : Directory[i + 1].name = Upper(name)}

Highest(S) == CHOOSE i \in S : \A j \in S : j <= i

Tolerated(name) ==
    /\ \A i, j \in Matches(name) : EntryData(i) = EntryData(j)
    /\ \A i \in Matches(name) : Directory[i + 1].size > 0

LumpOps == {"try_lump", "lump"}
BlockOps == {"try_lumps_following", "lumps_following",
             "try_lumps_between", "lumps_between"}
Found == last.res.tag \in {"Some", "Ok"}

\* C5: every directory entry of a loaded archive lies inside the buffer and
\* has a legal name of 1..8 characters, and every lump view handed out by a
\* lookup is the byte range and the stored name of a directory entry.
C5_EntriesInBoundsViewsExact ==
    Loaded =>
        /\ \A i \in 0 .. Count - 1 :
               /\ Directory[i + 1].offset + Directory[i + 1].size <= Len(file.val.raw)
               /\ Len(Directory[i + 1].name) \in 1 .. NameLen
               /\ \A k \in 1 .. Len(Directory[i + 1].name) :
                      LegalChar(Directory[i + 1].name[k])
        /\ (last.op \in LumpOps /\ Found) =>
               \E i \in 0 .. Count - 1 : last.res.val = EntryView(i)
        /\ (last.op \in BlockOps /\ Found) =>
               \A k \in 1 .. Len(last.res.val) :
                   \E i \in 0 .. Count - 1 : last.res.val[k] = EntryView(i)

C5_Witness ==
    /\ Loaded
    /\ Count >= 2
    /\ last.op = "try_lumps_between"
    /\ Found
    /\ Len(last.res.val) >= 2
    /\ \E k \in 1 .. Len(last.res.val) : Len(last.res.val[k].data) > 0

\* C6: a name lookup gives None when no entry has the name, the index when
\* exactly one has, the highest index when two or more identical non-empty
\* lumps have, and a "found k times" error otherwise.
C6_NameLookupOutcomes ==
    Loaded =>
        \A name \in LookupNames :
            LET k == Cardinality(Matches(name))
                index == try_lump_index(file.val, name)
            IN  /\ k = 0 => index = None
                /\ k = 1 => index = Some(Highest(Matches(name)))
                /\ (k >= 2 /\ Tolerated(name)) => index = Some(Highest(Matches(name)))
                /\ (k >= 2 /\ ~Tolerated(name)) =>
                       index = Malformed(file.val.path, "found times", <<Upper(name), k>>)
                /\ (last.op = "try_lump" /\ last.name = name) =>
                       last.res = IF index.tag = "Some"
                                    THEN Some(EntryView(index.val)) ELSE index

C6_Witness ==
    /\ Loaded
    /\ last.op = "try_lump"
    /\ last.res.tag = "Some"
    /\ Cardinality(Matches(last.name)) >= 2
    /\ Highest(Matches(last.name)) < Count - 1

\* The index a name resolves to: None, Some(i) or the error of C6.
Resolved(name) ==
    LET k == Cardinality(Matches(name))
    IN  IF k = 0 THEN None
        ELSE IF k = 1 \/ Tolerated(name) THEN Some(Highest(Matches(name)))
        ELSE Malformed(file.val.path, "found times", <<Upper(name), k>>)

\* The directory entries from .. to (inclusive) as a block.
EntryBlock(from, to) == [k \in 1 .. (to - from + 1) |-> EntryView(from + k - 1)]

\* C7: with size >= 1 and the marker resolved at index i of N entries,
\* try_lumps_following returns the entries i .. i+size-1 whenever
\* i + size <= N and an error exactly when i + size > N; it returns None
\* when the marker is absent, and size = 0 panics.
C7_FollowingBlockOrError ==
    (Loaded /\ last.op = "try_lumps_following") =>
        LET marker == Resolved(last.name)
        IN  /\ last.size = 0 => last.res = Panic
            /\ (last.size >= 1 /\ marker.tag = "None") => last.res = None
            /\ (last.size >= 1 /\ marker.tag = "Some" /\ marker.val + last.size <= Count) =>
                   last.res = Some(EntryBlock(marker.val, marker.val + last.size - 1))
            /\ (last.size >= 1 /\ marker.tag = "Some") =>
                   (last.res.tag = "Err") = (marker.val + last.size > Count)

\* C8: try_lumps_between returns None only when both markers are absent, an
\* error when exactly one is present or the start marker lies after the end
\* marker, and otherwise the inclusive range from start marker to end marker.
C8_BetweenOutcomes ==
    (Loaded /\ last.op = "try_lumps_between") =>
        LET start == Resolved(last.name)
            end == Resolved(last.end)
        IN  /\ (last.res = None) = (start = None /\ end = None)
            /\ (start.tag = "None") # (end.tag = "None") => last.res.tag = "Err"
            /\ (start.tag = "Err" \/ end.tag = "Err") => last.res.tag = "Err"
            /\ (start.tag = "Some" /\ end.tag = "Some" /\ start.val > end.val) =>
                   last.res = Malformed(file.val.path, "after", <<last.name, last.end>>)
            /\ (start.tag = "Some" /\ end.tag = "Some" /\ start.val <= end.val) =>
                   /\ last.res = Some(EntryBlock(start.val, end.val))
                   /\ last.res.val[1].name = Upper(last.name)
                   /\ last.res.val[Len(last.res.val)].name = Upper(last.end)

C8_Witness ==
    /\ Loaded
    /\ last.op = "try_lumps_between"
    /\ last.res.tag = "Some"
    /\ Len(last.res.val) = 3
    /\ last.name # last.end

\* C9: an input shorter than the header or with a magic other than IWAD or
\* PWAD fails with Malformed "not a WAD file", whatever its lump count,
\* directory offset and directory contents are.
C9_NotAWadBeforeDirectory ==
    (last.op = "load_raw"
        /\ (Len(last.raw) < HeaderLen
               \/ SubSeq(last.raw, 1, 4) \notin {<<73, 87, 65, 68>>, <<80, 87, 65, 68>>})) =>
        /\ last.res = Malformed(InputPath, "not a WAD file", <<>>)
        /\ file = None

C9_Witness ==
    /\ last.op = "load_raw"
    /\ Len(last.raw) >= HeaderLen
    /\ from_le_bytes(SubSeq(last.raw, 9, 12)) > Len(last.raw)
    /\ from_le_bytes(SubSeq(last.raw, 5, 8)) > 0
    /\ last.res = Malformed(InputPath, "not a WAD file", <<>>)

-----------------------------------------------------------------------------
(* The files on disk that stacks are built from.                           *)

At(name, at, size) == [name |-> name, at |-> at, size |-> size]
NameD == <<68>>
NameE == <<69>>

Disk ==
    [path \in {"doom.wad", "doom2.wad", "killer.wad", "biotech.wad", "killer.txt"} |->
        CASE path = "doom.wad" ->
                 DataFirst(MagicIwad, <<1, 2, 3>>,
                     <<At(NameA, 0, 1), At(NameB, 1, 1), At(NameC, 2, 1), At(NameD, 0, 0)>>)
          [] path = "doom2.wad" ->
                 DataFirst(MagicIwad, <<4, 5, 6>>,
                     <<At(NameB, 0, 1), At(NameA, 1, 1), At(NameC, 2, 1)>>)
          [] path = "killer.wad" ->
                 DataFirst(MagicPwad, <<7, 8, 9>>,
                     <<At(NameA, 0, 1), At(NameB, 1, 1), At(NameC, 2, 1), At(NameD, 0, 0)>>)
          [] path = "biotech.wad" ->
                 DataFirst(MagicPwad, <<7, 7, 5>>,
                     <<At(NameB, 0, 1), At(NameB, 1, 1), At(NameC, 2, 1), At(NameC, 0, 1)>>)
          [] OTHER -> <<75, 73, 76, 76, 69, 82, 32, 87, 65, 68, 33, 10>>]

Paths == DOMAIN Disk \cup {"missing.wad"}

\* What load_raw makes of the bytes of each file on disk.
DiskLoaded == [path \in DOMAIN Disk |-> load_raw(path, Disk[path])]

\* WadFile::load: open and read the file, then load_raw.
WadFile_load(path) ==
    IF path \notin DOMAIN Disk THEN IoError(path) ELSE DiskLoaded[path]

-----------------------------------------------------------------------------
(* Wad: a stack of an initial archive and patches.                         *)

Wad_new(f) == Ok([initial |-> f, patches |-> <<>>])

\* WadFile::load(path)?.expect_kind(Iwad)? and then Self::new(file).
Wad_load(path) ==
    LET checked(f) ==
            IF f.tag = "Err" THEN f
            ELSE IF expect_kind(f.val, "Iwad").tag = "Err"
              THEN expect_kind(f.val, "Iwad")
            ELSE Wad_new(f.val)
    IN  checked(WadFile_load(path))

Wad_load_unchecked(path) ==
    LET loaded(f) == IF f.tag = "Err" THEN f ELSE Wad_new(f.val)
    IN  loaded(WadFile_load(path))

\* add takes &self: the record holds self after the call and the result.
\* An add that pushes the archive onto self and hands self back.
Wad_add_in_place(self, f) ==
    LET pushed == [self EXCEPT !.patches = Append(@, f)]
    IN  [self |-> pushed, result |-> Ok(pushed)]

Wad_add(self, f) ==
    LET clone == [self EXCEPT !.patches = Append(@, f)]
    IN  [self |-> self, result |-> Ok(clone)]

\* A patch that expects the kind of an initial archive.
Wad_patch_expects_iwad(self, path) ==
    LET checked(f) ==
            IF f.tag = "Err" THEN [self |-> self, result |-> f]
            ELSE IF expect_kind(f.val, "Iwad").tag = "Err"
              THEN [self |-> self, result |-> expect_kind(f.val, "Iwad")]
            ELSE Wad_add(self, f.val)
    IN  checked(WadFile_load(path))

\* WadFile::load(path)?.expect_kind(Pwad)? and then self.add(file).
Wad_patch(self, path) ==
    LET checked(f) ==
            IF f.tag = "Err" THEN [self |-> self, result |-> f]
            ELSE IF expect_kind(f.val, "Pwad").tag = "Err"
              THEN [self |-> self, result |-> expect_kind(f.val, "Pwad")]
            ELSE Wad_add(self, f.val)
    IN  checked(WadFile_load(path))

Wad_patch_unchecked(self, path) ==
    LET loaded(f) ==
            IF f.tag = "Err" THEN [self |-> self, result |-> f]
            ELSE Wad_add(self, f.val)
    IN  loaded(WadFile_load(path))

\* A loop that goes on to the earlier archives when a patch fails.
RECURSIVE lookup_scan_past_errors(_, _, _)
lookup_scan_past_errors(tried, looked, i) ==
    IF i = 0 THEN looked
    ELSE LET value == tried[i]
         IN  IF value.tag = "Some" THEN Ok(value.val)
             ELSE lookup_scan_past_errors(tried, looked, i - 1)

\* for patch in self.patches.iter().rev() { try_lookup(patch)? } then
\* lookup(initial).  The closures are passed as their values: tried[i] is
\* try_lookup(patches[i]) and looked is lookup(initial).  lookup_scan is
\* the loop with patches 1 .. i still to visit.
RECURSIVE lookup_scan(_, _, _)
lookup_scan(tried, looked, i) ==
    IF i = 0 THEN looked
    ELSE LET value == tried[i]
         IN  IF value.tag = "Some" THEN Ok(value.val)
             ELSE IF value.tag = "None" THEN lookup_scan(tried, looked, i - 1)
             ELSE value

Wad_lookup(self, tried, looked) == lookup_scan(tried, looked, Len(self.patches))

RECURSIVE try_lookup_scan(_, _)
try_lookup_scan(tried, i) ==
    IF i = 0 THEN tried[0]
    ELSE LET value == tried[i]
         IN  IF value.tag = "None" THEN try_lookup_scan(tried, i - 1) ELSE value

Wad_try_lookup(self, tried) == try_lookup_scan(tried, Len(self.patches))

\* The archive a closure is called with: 0 is the initial one.
Wad_file(self, i) == IF i = 0 THEN self.initial ELSE self.patches[i]

\* A lump that visits the patches first to last: the first patch wins.
RECURSIVE first_patch_scan(_, _, _)
first_patch_scan(self, name, i) ==
    IF i > Len(self.patches) THEN WadFile_lump(self.initial, name)
    ELSE LET value == WadFile_try_lump(self.patches[i], name)
         IN  IF value.tag = "Some" THEN Ok(value.val)
             ELSE IF value.tag = "None" THEN first_patch_scan(self, name, i + 1)
             ELSE value

Wad_lump_first_patch(self, name) == first_patch_scan(self, name, 1)

Wad_lump(self, name) ==
    Wad_lookup(self,
        [i \in 1 .. Len(self.patches) |-> WadFile_try_lump(self.patches[i], name)],
        WadFile_lump(self.initial, name))

Wad_try_lump(self, name) ==
    Wad_try_lookup(self,
        [i \in 0 .. Len(self.patches) |-> WadFile_try_lump(Wad_file(self, i), name)])

\* A lumps_following that overlays each lump of the block separately.
Wad_lumps_following_merged(self, start, size) ==
    LET block == Wad_lookup(self,
                     [i \in 1 .. Len(self.patches) |->
                         WadFile_try_lumps_following(self.patches[i], start, size)],
                     WadFile_lumps_following(self.initial, start, size))
    IN  IF block.tag # "Ok" THEN block
        ELSE Ok([j \in 1 .. Len(block.val) |->
                    LET lump == Wad_lump(self, block.val[j].name)
                    IN  IF lump.tag = "Ok" THEN lump.val ELSE block.val[j]])

Wad_lumps_following(self, start, size) ==
    Wad_lookup(self,
        [i \in 1 .. Len(self.patches) |->
            WadFile_try_lumps_following(self.patches[i], start, size)],
        WadFile_lumps_following(self.initial, start, size))

Wad_try_lumps_following(self, start, size) ==
    Wad_try_lookup(self,
        [i \in 0 .. Len(self.patches) |->
            WadFile_try_lumps_following(Wad_file(self, i), start, size)])

Wad_lumps_between(self, start, end) ==
    Wad_lookup(self,
        [i \in 1 .. Len(self.patches) |->
            WadFile_try_lumps_between(self.patches[i], start, end)],
        WadFile_lumps_between(self.initial, start, end))

Wad_try_lumps_between(self, start, end) ==
    Wad_try_lookup(self,
        [i \in 0 .. Len(self.patches) |->
            WadFile_try_lumps_between(Wad_file(self, i), start, end)])

-----------------------------------------------------------------------------
(* Spec: the caller builds one stack, load(..).patch(..).patch(..), and    *)
(* queries it.                                                             *)

StackNames == {NameA, NameB, NameC, NameE}
StackSizes == {0, 1, 2}

Init ==
    /\ wad = None
    /\ last = [op |-> "init"]
    /\ file = None
    /\ stacks = <<>>
    /\ build = "checked"
    /\ colState = "idle"
    /\ last_y_offset = <<>>
    /\ posts = 0
    /\ bank = None
    /\ cursor = None

Load ==
    /\ wad = None
    /\ \E path \in Paths :
           \E result \in {Wad_load(path)} :
               /\ wad' = IF result.tag = "Ok" THEN result ELSE wad
               /\ last' = [op |-> "load", path |-> path, res |-> result]
    /\ UNCHANGED <<cursor, bank, file, stacks, build, colState, last_y_offset, posts>>

LoadUnchecked ==
    /\ wad = None
    /\ \E path \in Paths :
           \E result \in {Wad_load_unchecked(path)} :
               /\ wad' = IF result.tag = "Ok" THEN result ELSE wad
               /\ last' = [op |-> "load_unchecked", path |-> path, res |-> result]
    /\ UNCHANGED <<cursor, bank, file, stacks, build, colState, last_y_offset, posts>>

Patch ==
    /\ wad.tag = "Ok"
    /\ Len(wad.val.patches) < MaxPatches
    /\ \E path \in Paths :
           \E call \in {Wad_patch(wad.val, path)} :
               /\ wad' = IF call.result.tag = "Ok" THEN call.result ELSE Ok(call.self)
               /\ last' = [op |-> "patch", path |-> path, res |-> call.result]
    /\ UNCHANGED <<cursor, bank, file, stacks, build, colState, last_y_offset, posts>>

PatchUnchecked ==
    /\ wad.tag = "Ok"
    /\ Len(wad.val.patches) < MaxPatches
    /\ \E path \in Paths :
           \E call \in {Wad_patch_unchecked(wad.val, path)} :
               /\ wad' = IF call.result.tag = "Ok" THEN call.result ELSE Ok(call.self)
               /\ last' = [op |-> "patch_unchecked", path |-> path, res |-> call.result]
    /\ UNCHANGED <<cursor, bank, file, stacks, build, colState, last_y_offset, posts>>

Lump ==
    /\ wad.tag = "Ok"
    /\ \E name \in StackNames :
           last' = [op |-> "lump", name |-> name, res |-> Wad_lump(wad.val, name)]
    /\ UNCHANGED <<cursor, bank, wad, file, stacks, build, colState, last_y_offset, posts>>

TryLump ==
    /\ wad.tag = "Ok"
    /\ \E name \in StackNames :
           last' = [op |-> "try_lump", name |-> name, res |-> Wad_try_lump(wad.val, name)]
    /\ UNCHANGED <<cursor, bank, wad, file, stacks, build, colState, last_y_offset, posts>>

LumpsFollowing ==
    /\ wad.tag = "Ok"
    /\ \E start \in StackNames, size \in StackSizes :
           last' = [op |-> "lumps_following", name |-> start, size |-> size,
                    res |-> Wad_lumps_following(wad.val, start, size)]
    /\ UNCHANGED <<cursor, bank, wad, file, stacks, build, colState, last_y_offset, posts>>

TryLumpsFollowing ==
    /\ wad.tag = "Ok"
    /\ \E start \in StackNames, size \in StackSizes :
           last' = [op |-> "try_lumps_following", name |-> start, size |-> size,
                    res |-> Wad_try_lumps_following(wad.val, start, size)]
    /\ UNCHANGED <<cursor, bank, wad, file, stacks, build, colState, last_y_offset, posts>>

LumpsBetween ==
    /\ wad.tag = "Ok"
    /\ \E start \in StackNames, end \in StackNames :
           last' = [op |-> "lumps_between", name |-> start, end |-> end,
                    res |-> Wad_lumps_between(wad.val, start, end)]
    /\ UNCHANGED <<cursor, bank, wad, file, stacks, build, colState, last_y_offset, posts>>

TryLumpsBetween ==
    /\ wad.tag = "Ok"
    /\ \E start \in StackNames, end \in StackNames :
           last' = [op |-> "try_lumps_between", name |-> start, end |-> end,
                    res |-> Wad_try_lumps_between(wad.val, start, end)]
    /\ UNCHANGED <<cursor, bank, wad, file, stacks, build, colState, last_y_offset, posts>>

Next ==
    \/ Load
    \/ LoadUnchecked
    \/ Patch
    \/ PatchUnchecked
    \/ Lump
    \/ TryLump
    \/ LumpsFollowing
    \/ TryLumpsFollowing
    \/ LumpsBetween
    \/ TryLumpsBetween

Spec == Init /\ [][Next]_vars

-----------------------------------------------------------------------------
(* Properties of the stack (Spec).                                         *)

\* The archives of the stack, initial first, in the order they were added.
Archives == <<wad.val.initial>> \o wad.val.patches

Contains(f, name) ==
    \E i \in 1 .. Len(f.lump_locations) : f.lump_locations[i].name = Upper(name)

\* The positions in Archives of the archives whose directory has the name.
Holders(name) == {k \in 1 .. Len(Archives) : Contains(Archives[k], name)}

\* C1: lump(name) returns the lump of the most recently added archive whose
\* directory contains the name (as that archive resolves it), and the
\* initial archive's lump only when no patch contains the name.
C1_LastArchiveWins ==
    wad.tag = "Ok" =>
        \A name \in StackNames :
            LET result == Wad_lump(wad.val, name)
            IN  /\ Holders(name) = {} =>
                       result = Malformed(wad.val.initial.path, "missing", <<name>>)
                /\ Holders(name) # {} =>
                       /\ result = WadFile_lump(Archives[Highest(Holders(name))], name)
                       /\ result.tag = "Ok" =>
                              result.val.file = Archives[Highest(Holders(name))].path
                /\ (result.tag = "Ok" /\ result.val.file = wad.val.initial.path
                        /\ \A k \in 2 .. Len(Archives) :
                               Archives[k].path # wad.val.initial.path) =>
                       \A k \in 2 .. Len(Archives) : ~Contains(Archives[k], name)
                /\ (last.op = "lump" /\ last.name = name) => last.res = result

C1_Witness ==
    /\ wad.tag = "Ok"
    /\ Len(wad.val.patches) = 3
    /\ last.op = "lump"
    /\ last.res.tag = "Ok"
    /\ Holders(last.name) = {1, 2, 3}
    /\ last.res.val.file = wad.val.patches[2].path
    /\ wad.val.patches[1].path # wad.val.patches[2].path

\* The block of directory entries from .. from+n-1 (0-based) of archive f.
BlockOf(f, from, n) ==
    [j \in 1 .. n |->
        [file |-> f.path,
         name |-> f.lump_locations[from + j].name,
         data |-> [b \in 1 .. f.lump_locations[from + j].size |->
                      f.raw[f.lump_locations[from + j].offset + b]]]]

FollowingOps == {"lumps_following", "try_lumps_following"}
BetweenOps == {"lumps_between", "try_lumps_between"}

\* C2: a block returned by lumps_following or lumps_between is one run of
\* consecutive directory entries of a single archive, the last-added one
\* that contains the marker(s); no lump of it comes from another archive.
C2_BlockFromOneArchive ==
    (wad.tag = "Ok" /\ last.op \in FollowingOps \cup BetweenOps /\ Found) =>
        LET block == last.res.val
            markers == IF last.op \in BetweenOps THEN {last.name, last.end}
                       ELSE {last.name}
            holders == UNION {Holders(m) : m \in markers}
            k == Highest(holders)
        IN  /\ holders # {}
            /\ \A j \in 1 .. Len(block) : block[j].file = Archives[k].path
            /\ \E from \in 0 .. Len(Archives[k].lump_locations) - Len(block) :
                   block = BlockOf(Archives[k], from, Len(block))
            /\ block[1].name = Upper(last.name)
            /\ last.op \in FollowingOps => Len(block) = last.size
            /\ last.op \in BetweenOps => block[Len(block)].name = Upper(last.end)

C2_Witness ==
    /\ wad.tag = "Ok"
    /\ Len(wad.val.patches) >= 2
    /\ last.op = "lumps_following"
    /\ last.res.tag = "Ok"
    /\ Len(last.res.val) = 2
    /\ Holders(last.name) = {1, 2}
    /\ wad.val.initial.path # wad.val.patches[1].path
    /\ \E j \in 1 .. 2 : Contains(wad.val.patches[2], last.res.val[j].name)

-----------------------------------------------------------------------------
(* SpecStacks: the caller keeps every stack it has built; a stack is       *)
(* loaded from a path or derived from a stack it still holds.              *)

StacksLoad ==
    /\ Len(stacks) < MaxStacks
    /\ \E path \in Paths :
           \E result \in {Wad_load(path)} :
               /\ stacks' = IF result.tag = "Ok" THEN Append(stacks, result.val)
                            ELSE stacks
               /\ last' = [op |-> "load", path |-> path, held |-> Len(stacks),
                           res |-> result]
    /\ UNCHANGED <<cursor, bank, file, wad, build, colState, last_y_offset, posts>>

StacksLoadUnchecked ==
    /\ Len(stacks) < MaxStacks
    /\ \E path \in Paths :
           \E result \in {Wad_load_unchecked(path)} :
               /\ stacks' = IF result.tag = "Ok" THEN Append(stacks, result.val)
                            ELSE stacks
               /\ last' = [op |-> "load_unchecked", path |-> path, held |-> Len(stacks),
                           res |-> result]
    /\ UNCHANGED <<cursor, bank, file, wad, build, colState, last_y_offset, posts>>

\* The stacks held after a call on stacks[i] that left it as self.
Held(i, call) ==
    LET kept == [stacks EXCEPT ![i] = call.self]
    IN  IF call.result.tag = "Ok" THEN Append(kept, call.result.val) ELSE kept

StacksPatch ==
    /\ Len(stacks) < MaxStacks
    /\ \E i \in 1 .. Len(stacks), path \in Paths :
           \E call \in {Wad_patch(stacks[i], path)} :
               /\ stacks' = Held(i, call)
               /\ last' = [op |-> "patch", path |-> path, held |-> Len(stacks),
                           self |-> i, res |-> call.result]
    /\ UNCHANGED <<cursor, bank, file, wad, build, colState, last_y_offset, posts>>

StacksPatchUnchecked ==
    /\ Len(stacks) < MaxStacks
    /\ \E i \in 1 .. Len(stacks), path \in Paths :
           \E call \in {Wad_patch_unchecked(stacks[i], path)} :
               /\ stacks' = Held(i, call)
               /\ last' = [op |-> "patch_unchecked", path |-> path, held |-> Len(stacks),
                           self |-> i, res |-> call.result]
    /\ UNCHANGED <<cursor, bank, file, wad, build, colState, last_y_offset, posts>>

NextStacks ==
    \/ StacksLoad
    \/ StacksLoadUnchecked
    \/ StacksPatch
    \/ StacksPatchUnchecked

SpecStacks == Init /\ [][NextStacks]_vars

PatchOps == {"patch", "patch_unchecked"}

\* C3: a successful patch, patch_unchecked or add on stack S yields a new
\* stack, S's archive list with the new archive appended last, and leaves
\* S and every other held stack, and every lookup on them, as before.
C3_PatchAppendsLeavesSelf ==
    [][(last'.op \in PatchOps /\ last'.res.tag = "Ok") =>
           /\ Len(stacks') = Len(stacks) + 1
           /\ stacks'[Len(stacks')].initial = stacks[last'.self].initial
           /\ stacks'[Len(stacks')].patches =
                  Append(stacks[last'.self].patches, WadFile_load(last'.path).val)
           /\ last'.res.val = stacks'[Len(stacks')]
           /\ \A i \in 1 .. Len(stacks) :
                  /\ stacks'[i] = stacks[i]
                  /\ \A name \in StackNames :
                         /\ Wad_lump(stacks'[i], name) = Wad_lump(stacks[i], name)
                         /\ Wad_try_lumps_between(stacks'[i], name, NameC)
                                = Wad_try_lumps_between(stacks[i], name, NameC)]_vars

\* Stack 1 has been patched twice, giving stacks 2 and 3.
C3_Witness ==
    /\ Len(stacks) = 3
    /\ stacks[1].patches = <<>>
    /\ Len(stacks[2].patches) = 1
    /\ Len(stacks[3].patches) = 1
    /\ stacks[2] # stacks[3]
    /\ last.op = "patch"
    /\ last.self = 1
    /\ last.res.tag = "Ok"

Magic(path) == SubSeq(Disk[path], 1, 4)

\* C4: load succeeds only for an IWAD and patch only for a PWAD; a mismatch
\* returns a wrong-kind error with the path and the expected kind and adds
\* no stack; expect_kind succeeds exactly when the kinds are equal; the
\* unchecked constructors accept either kind.
C4_KindChecked ==
    /\ last.op \in {"load", "patch"} =>
           LET expected == IF last.op = "load" THEN "Iwad" ELSE "Pwad"
               magic == IF last.op = "load" THEN <<73, 87, 65, 68>>
                        ELSE <<80, 87, 65, 68>>
               other == IF last.op = "load" THEN <<80, 87, 65, 68>>
                        ELSE <<73, 87, 65, 68>>
           IN  /\ last.res.tag = "Ok" =>
                      (last.path \in DOMAIN Disk /\ Magic(last.path) = magic)
               /\ (last.path \in DOMAIN Disk /\ Magic(last.path) = magic) =>
                      last.res.tag = "Ok"
               /\ (last.path \in DOMAIN Disk /\ Magic(last.path) = other) =>
                      last.res = WrongType(last.path, expected)
               /\ last.res.tag = "Err" => Len(stacks) = last.held
    /\ last.op \in {"load_unchecked", "patch_unchecked"} =>
           (last.res.tag = "Ok") =
               (last.path \in DOMAIN Disk
                    /\ Magic(last.path) \in {<<73, 87, 65, 68>>, <<80, 87, 65, 68>>})
    /\ last.op \in {"load", "patch", "load_unchecked", "patch_unchecked"} =>
           (last.res.tag = "Ok") = (Len(stacks) = last.held + 1)
    /\ \A i \in 1 .. Len(stacks), expected \in {"Iwad", "Pwad"} :
           LET kinds == <<stacks[i].initial.kind>>
                            \o [k \in 1 .. Len(stacks[i].patches) |->
                                   stacks[i].patches[k].kind]
               paths == <<stacks[i].initial.path>>
                            \o [k \in 1 .. Len(stacks[i].patches) |->
                                   stacks[i].patches[k].path]
           IN  \A k \in 1 .. Len(kinds) :
                   /\ (kinds[k] = "Iwad") = (Magic(paths[k]) = <<73, 87, 65, 68>>)
                   /\ (kinds[k] = "Pwad") = (Magic(paths[k]) = <<80, 87, 65, 68>>)
                   /\ (expect_kind([kind |-> kinds[k], path |-> paths[k]], expected).tag
                           = "Ok") = (kinds[k] = expected)

\* A checked patch with an IWAD is refused on a stack that an unchecked
\* patch has already put an IWAD on top of.
C4_Witness ==
    /\ last.op = "patch"
    /\ last.self = 2
    /\ last.res = WrongType(last.path, "Pwad")
    /\ Len(stacks) = 2
    /\ stacks[1].initial.kind = "Iwad"
    /\ Len(stacks[2].patches) = 1
    /\ stacks[2].patches[1].kind = "Iwad"

-----------------------------------------------------------------------------
(* SpecPatch: Patch::read_column decodes the posts of one column of a      *)
(* patch lump.  The bytes of the lump are drawn as the loop reads them.    *)

RawYs == {127, 254}

\* a + b on u16: a build with overflow checks panics, one without wraps.
add_u16(a, b, checks) ==
    IF a + b > U16Max
      THEN IF checks = "checked" THEN Panic ELSE Ok((a + b) % (U16Max + 1))
    ELSE Ok(a + b)

\* A decoder that never adds: every post keeps its raw y.
post_y_offset_plain(raw_y, last_y, checks) == Ok(raw_y)

\* The y_offset of the post that starts with byte raw_y (not 255).
post_y_offset(raw_y, last_y, checks) ==
    IF last_y # <<>> /\ raw_y <= last_y[1] THEN add_u16(last_y[1], raw_y, checks)
    ELSE Ok(raw_y)

InitPatch ==
    /\ build \in {"checked", "unchecked"}
    /\ colState = "reading"
    /\ last_y_offset = <<>>
    /\ posts = 0
    /\ bank = None
    /\ cursor = None
    /\ last = [op |-> "init"]
    /\ file = None
    /\ wad = None
    /\ stacks = <<>>

\* One iteration that pushes a post: y byte, length, unused, pixels, unused.
ColumnPost ==
    /\ colState = "reading"
    /\ posts < MaxPosts
    /\ \E raw_y \in RawYs :
           LET y_offset == post_y_offset(raw_y, last_y_offset, build)
           IN  IF y_offset.tag = "Panic"
                 THEN /\ colState' = "panic"
                      /\ last' = [op |-> "post", raw_y |-> raw_y]
                      /\ UNCHANGED <<bank, last_y_offset, posts>>
               ELSE /\ last_y_offset' = <<y_offset.val>>
                    /\ posts' = posts + 1
                    /\ last' = [op |-> "post", raw_y |-> raw_y, y_offset |-> y_offset.val]
                    /\ UNCHANGED colState
    /\ UNCHANGED <<cursor, bank, file, wad, stacks, build>>

\* The y byte is 255: the column is complete.
ColumnBreak ==
    /\ colState = "reading"
    /\ colState' = "done"
    /\ last' = [op |-> "break", raw_y |-> ColumnEnd]
    /\ UNCHANGED <<cursor, bank, file, wad, stacks, build, last_y_offset, posts>>

\* A read runs off the end of the lump: Err(BadLump).
ColumnEof ==
    /\ colState = "reading"
    /\ colState' = "error"
    /\ last' = [op |-> "eof"]
    /\ UNCHANGED <<cursor, bank, file, wad, stacks, build, last_y_offset, posts>>

NextPatch ==
    \/ ColumnPost
    \/ ColumnBreak
    \/ ColumnEof

SpecPatch == InitPatch /\ [][NextPatch]_vars

\* C10: whatever the input bytes are, loading ends in Ok or in an error
\* value: no loader or decoder panics, by arithmetic overflow or otherwise.
C10_DecodersNeverPanic ==
    colState # "panic"

-----------------------------------------------------------------------------
(* Lump: size checks and errors that blame a lump.                         *)

\* A Lump::error that leaves the lump's name out of the description.
Lump_error_unnamed(lump, desc, subject) ==
    Malformed(lump.file, <<<<>>, desc>>, subject)

\* Lump::error: the file's Malformed error, "<name>: <desc>".
Lump_error(lump, desc, subject) ==
    Malformed(lump.file, <<lump.name, desc>>, subject)

Lump_expect_size(lump, size) ==
    IF Len(lump.data) = size THEN Ok(lump)
    ELSE Lump_error(lump, "expected bytes, got", <<size, Len(lump.data)>>)

Lump_expect_size_multiple(lump, size) ==
    IF Len(lump.data) % size = 0 THEN Ok(lump)
    ELSE Lump_error(lump, "expected a multiple of bytes, got", <<size, Len(lump.data)>>)

-----------------------------------------------------------------------------
(* Archives and stacks the asset loaders are run on.  An archive is given  *)
(* by its lumps, written out as bytes and loaded by load_raw.              *)

L(name, data) == [name |-> name, data |-> data]

RECURSIVE LumpBytes(_)
LumpBytes(lumps) ==
    IF lumps = <<>> THEN <<>> ELSE Head(lumps).data \o LumpBytes(Tail(lumps))

RECURSIVE LumpEntries(_, _)
LumpEntries(lumps, at) ==
    IF lumps = <<>> THEN <<>>
    ELSE <<At(Head(lumps).name, at, Len(Head(lumps).data))>>
             \o LumpEntries(Tail(lumps), at + Len(Head(lumps).data))

Archive(magic, lumps) == DataFirst(magic, LumpBytes(lumps), LumpEntries(lumps, 0))

F(path, raw) == [path |-> path, raw |-> raw]

\* Wad::new on the first file, then add for each of the others.
RECURSIVE StackAdd(_, _)
StackAdd(stack, files) ==
    IF files = <<>> THEN stack
    ELSE StackAdd(Wad_add(stack, load_raw(Head(files).path, Head(files).raw).val).result.val,
                  Tail(files))

StackOf(files) ==
    StackAdd(Wad_new(load_raw(Head(files).path, Head(files).raw).val).val, Tail(files))

-----------------------------------------------------------------------------
(* PaletteBank.                                                            *)

MaxPalettes == 2
PALETTE_BYTES == 768

PLAYPAL == <<80, 76, 65, 89, 80, 65, 76>>

\* data.chunks_exact(PALETTE_BYTES)
chunks_exact(data, size) ==
    [k \in 1 .. (Len(data) \div size) |-> SubSeq(data, (k - 1) * size + 1, k * size)]

PaletteBank_load(w) ==
    LET sized(lump) ==
            IF lump.tag = "Err" THEN lump
            ELSE IF Lump_expect_size_multiple(lump.val, PALETTE_BYTES).tag = "Err"
              THEN Lump_expect_size_multiple(lump.val, PALETTE_BYTES)
            ELSE Ok([palettes |-> chunks_exact(lump.val.data, PALETTE_BYTES),
                     active_index |-> None])
    IN  sized(Wad_lump(w, PLAYPAL))

PaletteBank_count(self) == Len(self.palettes)

\* &self.palettes[self.active_index.expect("active palette not set")]
PaletteBank_active(self) ==
    IF self.active_index = None THEN Panic
    ELSE IF self.active_index.val >= Len(self.palettes) THEN Panic
    ELSE Ok(self.palettes[self.active_index.val + 1])

\* A set_active that returns the palette that was active before the call.
PaletteBank_set_active_stale(self, index) ==
    IF ~(index < PaletteBank_count(self)) THEN [self |-> self, result |-> Panic]
    ELSE [self |-> [self EXCEPT !.active_index = Some(index)],
          result |-> PaletteBank_active(self)]

\* A set_active that stores the index before it checks the range.
PaletteBank_set_active_unchecked(self, index) ==
    IF ~(index < PaletteBank_count(self))
      THEN [self |-> [self EXCEPT !.active_index = Some(index)], result |-> Panic]
    ELSE [self |-> [self EXCEPT !.active_index = Some(index)],
          result |-> PaletteBank_active([self EXCEPT !.active_index = Some(index)])]

\* set_active takes &mut self: the record holds self after the call.
PaletteBank_set_active(self, index) ==
    IF ~(index < PaletteBank_count(self)) THEN [self |-> self, result |-> Panic]
    ELSE [self |-> [self EXCEPT !.active_index = Some(index)],
          result |-> PaletteBank_active([self EXCEPT !.active_index = Some(index)])]

-----------------------------------------------------------------------------
(* SpecPalette: a PaletteBank is loaded from a stack and then used.        *)

\* n palettes, the k-th filled with the byte base + k - 1.
PaletteFill(n, base) ==
    [i \in 1 .. n * PALETTE_BYTES |-> base + ((i - 1) \div PALETTE_BYTES)]

OtherLump == L(NameA, <<1>>)

PaletteIwad(data) == F("doom.wad", Archive(MagicIwad, <<OtherLump, L(PLAYPAL, data)>>))
PalettePwad(data) == F("killer.wad", Archive(MagicPwad, <<L(PLAYPAL, data), OtherLump>>))

PaletteWads ==
    {StackOf(<<PaletteIwad(PaletteFill(n, base))>>) :
         n \in 0 .. MaxPalettes, base \in {10, 20}}
    \cup {StackOf(<<PaletteIwad(data)>>) :
              data \in {<<7>>, PaletteFill(1, 10) \o <<7>>}}
    \cup {StackOf(<<F("doom.wad", Archive(MagicIwad, <<OtherLump>>))>>)}
    \cup {StackOf(<<PaletteIwad(PaletteFill(1, 10)), PalettePwad(PaletteFill(n, 30))>>) :
              n \in 0 .. MaxPalettes}
    \cup {StackOf(<<PaletteIwad(PaletteFill(n, 10)),
                    F("killer.wad", Archive(MagicPwad, <<OtherLump>>))>>) :
              n \in 1 .. MaxPalettes}

InitPalette ==
    /\ bank = None
    /\ cursor = None
    /\ wad = None
    /\ last = [op |-> "init"]
    /\ file = None
    /\ stacks = <<>>
    /\ build = "checked"
    /\ colState = "idle"
    /\ last_y_offset = <<>>
    /\ posts = 0

PaletteLoad ==
    /\ wad = None
    /\ \E w \in PaletteWads :
           \E result \in {PaletteBank_load(w)} :
               /\ wad' = Ok(w)
               /\ bank' = IF result.tag = "Ok" THEN result ELSE bank
               /\ last' = [op |-> "load", res |-> result]
    /\ UNCHANGED <<cursor, file, stacks, build, colState, last_y_offset, posts>>

PaletteCount ==
    /\ bank # None
    /\ last' = [op |-> "count", res |-> Ok(PaletteBank_count(bank.val))]
    /\ UNCHANGED <<cursor, bank, wad, file, stacks, build, colState, last_y_offset, posts>>

PaletteActive ==
    /\ bank # None
    /\ last' = [op |-> "active", res |-> PaletteBank_active(bank.val)]
    /\ UNCHANGED <<cursor, bank, wad, file, stacks, build, colState, last_y_offset, posts>>

PaletteSetActive ==
    /\ bank # None
    /\ \E index \in 0 .. MaxPalettes + 1 :
           \E call \in {PaletteBank_set_active(bank.val, index)} :
               /\ bank' = Ok(call.self)
               /\ last' = [op |-> "set_active", index |-> index, res |-> call.result]
    /\ UNCHANGED <<cursor, wad, file, stacks, build, colState, last_y_offset, posts>>

NextPalette ==
    \/ PaletteLoad
    \/ PaletteCount
    \/ PaletteActive
    \/ PaletteSetActive

SpecPalette == InitPalette /\ [][NextPalette]_vars

\* C11: in every state of a loaded bank and for every i < count(),
\* set_active(i) returns palette i and active() after it returns palette i.
C11_SetActiveThenActive ==
    bank # None =>
        /\ \A i \in 0 .. PaletteBank_count(bank.val) - 1 :
               LET call == PaletteBank_set_active(bank.val, i)
               IN  /\ call.result = Ok(bank.val.palettes[i + 1])
                   /\ PaletteBank_active(call.self) = Ok(bank.val.palettes[i + 1])
                   /\ call.self.palettes = bank.val.palettes
        /\ (last.op = "set_active" /\ last.index < PaletteBank_count(bank.val)) =>
               /\ last.res = Ok(bank.val.palettes[last.index + 1])
               /\ PaletteBank_active(bank.val) = last.res

\* Palette 1 is selected in a bank of two different palettes.
C11_Witness ==
    /\ bank # None
    /\ PaletteBank_count(bank.val) = 2
    /\ bank.val.palettes[1] # bank.val.palettes[2]
    /\ last.op = "set_active"
    /\ last.index = 1
    /\ last.res = Ok(bank.val.palettes[2])

\* C12: the active index is Unset after load; active() in Unset panics;
\* set_active(i), i < count, selects i from any state; nothing returns the
\* bank to Unset; set_active(i), i >= count, panics and leaves the index;
\* no operation changes the palettes.
C12_ActiveIndexTransitions ==
    [][/\ (bank = None /\ bank' # None) => bank'.val.active_index = None
       /\ bank # None =>
              /\ bank' # None
              /\ bank'.val.palettes = bank.val.palettes
              /\ bank.val.active_index # None => bank'.val.active_index # None
              /\ (last'.op = "active" /\ bank.val.active_index = None) =>
                     last'.res = Panic
              /\ (last'.op = "set_active" /\ last'.index < PaletteBank_count(bank.val)) =>
                     bank'.val.active_index = Some(last'.index)
              /\ (last'.op = "set_active" /\ last'.index >= PaletteBank_count(bank.val)) =>
                     /\ last'.res = Panic
                     /\ bank'.val.active_index = bank.val.active_index
              /\ last'.op # "set_active" =>
                     bank'.val.active_index = bank.val.active_index]_vars

\* An out-of-range set_active has panicked while palette 0 stays selected.
C12_Witness ==
    /\ bank # None
    /\ PaletteBank_count(bank.val) = 2
    /\ bank.val.active_index = Some(0)
    /\ last.op = "set_active"
    /\ last.index = 2
    /\ last.res = Panic

\* C13: a successfully loaded bank holds at least one palette.
C13_LoadedBankNonEmpty ==
    bank # None => PaletteBank_count(bank.val) >= 1

-----------------------------------------------------------------------------
(* Flat and FlatBank.                                                      *)

MaxFlats == 2
FlatSide == 64

F_START == <<70, 95, 83, 84, 65, 82, 84>>
F_END == <<70, 95, 69, 78, 68>>

\* Flat::shape() and the number of bytes of a flat.
Flat_shape == <<FlatSide, FlatSide>>
Flat_size == Flat_shape[1] * Flat_shape[2]

\* A Flat::load that takes any lump of at most the expected size.
Flat_load_at_most(lump) ==
    IF Len(lump.data) > Flat_size
      THEN Lump_error(lump, "expected bytes, got", <<Flat_size, Len(lump.data)>>)
    ELSE Ok([name |-> lump.name,
             pixels |-> [shape |-> Flat_shape, data |-> lump.data]])

Flat_load(lump) ==
    IF Len(lump.data) # Flat_size
      THEN Lump_error(lump, "expected bytes, got", <<Flat_size, Len(lump.data)>>)
    ELSE Ok([name |-> lump.name,
             pixels |-> [shape |-> Flat_shape, data |-> lump.data]])

\* The loop of FlatBank::load: lumps i .. of the block still to visit.
RECURSIVE insert_flats(_, _, _)
insert_flats(lumps, i, flats) ==
    IF i > Len(lumps) THEN Ok([flats |-> flats])
    ELSE IF Len(lumps[i].data) = 0 THEN insert_flats(lumps, i + 1, flats)
    ELSE IF Flat_load(lumps[i]).tag = "Err" THEN Flat_load(lumps[i])
    ELSE IF lumps[i].name \in DOMAIN flats
      THEN Lump_error(lumps[i], "duplicate flat", <<lumps[i].name>>)
    ELSE insert_flats(lumps, i + 1,
             (lumps[i].name :> Flat_load(lumps[i]).val) @@ flats)

FlatBank_load(w) ==
    LET inserted(lumps) ==
            IF lumps.tag # "Ok" THEN lumps ELSE insert_flats(lumps.val, 1, <<>>)
    IN  inserted(Wad_lumps_between(w, F_START, F_END))

\* BTreeMap::get through Deref.
FlatBank_get(self, name) ==
    IF name \in DOMAIN self.flats THEN Some(self.flats[name]) ELSE None

-----------------------------------------------------------------------------
(* SpecFlat: a FlatBank is loaded from a stack and then read.              *)

Filled(size, byte) == [i \in 1 .. size |-> byte]

\* Lumps between the markers: named A or B; empty, one byte or a full flat.
FlatLumps ==
    UNION {[1 .. n -> [name : {NameA, NameB}, size : {0, 1, Flat_size}]] :
               n \in 0 .. MaxFlats}

FlatBlock(start, lumps, end) ==
    <<L(F_START, start)>>
        \o [k \in 1 .. Len(lumps) |-> L(lumps[k].name, Filled(lumps[k].size, k))]
        \o <<L(F_END, end)>>

FlatIwad(lumps) == F("doom.wad", Archive(MagicIwad, lumps))
FlatPwad(lumps) == F("killer.wad", Archive(MagicPwad, lumps))

OneFlat(name) == <<[name |-> name, size |-> Flat_size]>>

FlatWads ==
    {StackOf(<<FlatIwad(<<OtherLump>> \o FlatBlock(<<>>, lumps, <<>>))>>) :
         lumps \in FlatLumps}
    \cup {StackOf(<<FlatIwad(FlatBlock(start, OneFlat(NameA), end))>>) :
              start \in {<<>>, Filled(Flat_size, 8), <<8>>},
              end \in {<<>>, Filled(Flat_size, 9)}}
    \cup {StackOf(<<FlatIwad(lumps)>>) :
              lumps \in {<<OtherLump>>,
                         <<L(F_START, <<>>), OtherLump>>,
                         <<OtherLump, L(F_END, <<>>)>>,
                         <<L(F_END, <<>>), L(NameA, Filled(Flat_size, 1)),
                           L(F_START, <<>>)>>}}
    \cup {StackOf(<<FlatIwad(FlatBlock(<<>>, OneFlat(NameA), <<>>)), FlatPwad(lumps)>>) :
              lumps \in {FlatBlock(<<>>, OneFlat(NameB), <<>>),
                         <<OtherLump>>,
                         <<L(F_START, <<>>), L(NameB, Filled(Flat_size, 1))>>}}

FlatNames == {NameA, NameB, F_START, F_END, LowerA}

InitFlat == InitPalette

FlatLoad ==
    /\ wad = None
    /\ \E w \in FlatWads :
           \E result \in {FlatBank_load(w)} :
               /\ wad' = Ok(w)
               /\ bank' = IF result.tag = "Ok" THEN result ELSE bank
               /\ last' = [op |-> "load", res |-> result]
    /\ UNCHANGED <<cursor, file, stacks, build, colState, last_y_offset, posts>>

FlatGet ==
    /\ bank # None
    /\ \E name \in FlatNames :
           last' = [op |-> "get", name |-> name, res |-> FlatBank_get(bank.val, name)]
    /\ UNCHANGED <<cursor, bank, wad, file, stacks, build, colState, last_y_offset, posts>>

NextFlat ==
    \/ FlatLoad
    \/ FlatGet

SpecFlat == InitFlat /\ [][NextFlat]_vars

\* The lumps of the F_START .. F_END block of the stack that hold data.
FlatRange == Wad_lumps_between(wad.val, F_START, F_END)
FlatData == {k \in 1 .. Len(FlatRange.val) : Len(FlatRange.val[k].data) # 0}

\* C14: FlatBank::load succeeds exactly when the block is found, every
\* non-empty lump of it is 4096 bytes and the non-empty lumps' names are
\* pairwise distinct; the bank then holds exactly those lumps by name.
C14_FlatBankLoad ==
    wad # None =>
        LET loadable ==
                /\ FlatRange.tag = "Ok"
                /\ \A k \in FlatData : Len(FlatRange.val[k].data) = 4096
                /\ \A j, k \in FlatData :
                       j # k => FlatRange.val[j].name # FlatRange.val[k].name
        IN  /\ (bank # None) = loadable
            /\ last.op = "load" => (last.res.tag = "Ok") = loadable
            /\ (last.op = "load" /\ ~loadable) => last.res.tag = "Err"
            /\ bank # None =>
                   /\ DOMAIN bank.val.flats = {FlatRange.val[k].name : k \in FlatData}
                   /\ \A k \in FlatData :
                          /\ bank.val.flats[FlatRange.val[k].name].name
                                 = FlatRange.val[k].name
                          /\ bank.val.flats[FlatRange.val[k].name].pixels.data
                                 = FlatRange.val[k].data
                   /\ (last.op = "get" /\ last.res # None) =>
                          \E k \in FlatData :
                              /\ FlatRange.val[k].name = last.name
                              /\ last.res.val.pixels.data = FlatRange.val[k].data

\* A flat is loaded from a block that also has an empty lump besides the
\* markers, and is read back by name.
C14_Witness ==
    /\ bank # None
    /\ Cardinality(DOMAIN bank.val.flats) = 1
    /\ Len(FlatRange.val) > 2 + Cardinality(FlatData)
    /\ last.op = "get"
    /\ last.res # None

-----------------------------------------------------------------------------
(* Cursor reads over a lump's data.  A read past the end is UnexpectedEof, *)
(* which LoadError turns into BadLump; explain turns BadLump into the      *)
(* error the loader gives for the whole lump.                              *)

BadLump == [tag |-> "BadLump"]

explain(result, desc) == IF result.tag = "BadLump" THEN desc ELSE result

read_u8(data, pos) ==
    IF pos + 1 > Len(data) THEN BadLump ELSE Ok(data[pos + 1])

read_u16(data, pos) ==
    IF pos + 2 > Len(data) THEN BadLump ELSE Ok(data[pos + 1] + 256 * data[pos + 2])

read_i16(data, pos) ==
    IF pos + 2 > Len(data) THEN BadLump
    ELSE LET v == data[pos + 1] + 256 * data[pos + 2]
         IN  Ok(IF v > 32767 THEN v - 65536 ELSE v)

read_u32(data, pos) ==
    IF pos + 4 > Len(data) THEN BadLump ELSE Ok(from_le_bytes(Slice(data, pos, pos + 4)))

\* read_name: 8 bytes; parse_name gives Err(name) when a byte is not ASCII.
read_name(data, pos) ==
    IF pos + NameLen > Len(data) THEN BadLump
    ELSE LET raw8 == Slice(data, pos, pos + NameLen)
         IN  IF \E i \in 1 .. NameLen : raw8[i] > 127
               THEN [tag |-> "BadName", val |-> parse_name(raw8)]
             ELSE Ok(parse_name(raw8))

-----------------------------------------------------------------------------
(* Patch::load and PatchBank.                                              *)

\* read_column from position pos; posts holds the posts pushed so far.
RECURSIVE read_column(_, _, _, _, _)
read_column(data, pos, last_y, column, checks) ==
    IF pos + 1 > Len(data) THEN BadLump
    ELSE IF data[pos + 1] = ColumnEnd THEN Ok([posts |-> column])
    ELSE LET pushed(y_offset) ==
                 IF y_offset.tag = "Panic" THEN Panic
                 ELSE IF pos + 3 > Len(data) THEN BadLump
                 ELSE IF pos + 3 + data[pos + 2] > Len(data) THEN BadLump
                 ELSE IF pos + 3 + data[pos + 2] + 1 > Len(data) THEN BadLump
                 ELSE read_column(data, pos + 3 + data[pos + 2] + 1, <<y_offset.val>>,
                          Append(column,
                              [y_offset |-> y_offset.val,
                               pixels |-> Slice(data, pos + 3, pos + 3 + data[pos + 2])]),
                          checks)
         IN  pushed(post_y_offset(data[pos + 1], last_y, checks))

\* The second loop of Patch::load: seek to each column offset and read it.
RECURSIVE read_columns(_, _, _, _, _)
read_columns(data, width, k, columns, checks) ==
    IF k = width THEN Ok(columns)
    ELSE LET pushed(column) ==
                 IF column.tag # "Ok" THEN column
                 ELSE read_columns(data, width, k + 1, Append(columns, column.val), checks)
         IN  pushed(read_column(data, read_u32(data, 8 + 4 * k).val, <<>>, <<>>, checks))

Patch_load(lump, checks) ==
    LET data == lump.data
        width == read_u16(data, 0)
        built(columns) ==
            IF columns.tag # "Ok" THEN columns
            ELSE Ok([name |-> lump.name,
                     width |-> width.val,
                     height |-> read_u16(data, 2).val,
                     y |-> read_i16(data, 4).val,
                     x |-> read_i16(data, 6).val,
                     columns |-> columns.val])
    IN  explain(
            IF Len(data) < 8 THEN BadLump
            ELSE IF 8 + 4 * width.val > Len(data) THEN BadLump
            ELSE built(read_columns(data, width.val, 0, <<>>, checks)),
            Lump_error(lump, "bad patch data", <<>>))

\* The loop of PatchBank::load with count names still to read from pos.
RECURSIVE read_patches(_, _, _, _, _, _)
read_patches(w, lump, pos, count, patches, checks) ==
    LET pushed(name, patch) ==
            IF patch.tag \in {"Err", "Panic"} THEN patch
            ELSE read_patches(w, lump, pos + NameLen, count - 1,
                     Append(patches,
                         [name |-> name,
                          patch |-> IF patch.tag = "None" THEN None ELSE Some(patch.val)]),
                     checks)
        loaded(name, found) ==
            IF found.tag = "Err" THEN found
            ELSE IF found.tag = "None" THEN pushed(name, None)
            ELSE pushed(name, Patch_load(found.val, checks))
        named(name) ==
            IF name.tag = "BadLump" THEN BadLump
            ELSE IF name.tag = "BadName"
              THEN Lump_error(lump, "contains bad lump name", <<name.val>>)
            ELSE loaded(name.val, Wad_try_lump(w, name.val))
    IN  IF count = 0 THEN Ok([patches |-> patches])
        ELSE named(read_name(lump.data, pos))

PNAMES == <<80, 78, 65, 77, 69, 83>>

\* A PatchBank::load that fails when a listed patch has no lump.
PatchBank_load_strict(w, checks) ==
    LET listed(lump) ==
            IF lump.tag = "Err" THEN lump
            ELSE LET read(count) ==
                         IF count.tag = "BadLump" THEN BadLump
                         ELSE read_patches(w, lump.val, 4, count.val, <<>>, checks)
                     present(loaded) ==
                         IF loaded.tag = "Ok"
                              /\ \E i \in 1 .. Len(loaded.val.patches) :
                                     loaded.val.patches[i].patch = None
                           THEN BadLump
                         ELSE loaded
                 IN  explain(present(read(read_u32(lump.val.data, 0))),
                             Lump_error(lump.val, "bad patch list data", <<>>))
    IN  listed(Wad_lump(w, PNAMES))

PatchBank_load(w, checks) ==
    LET listed(lump) ==
            IF lump.tag = "Err" THEN lump
            ELSE LET read(count) ==
                         IF count.tag = "BadLump" THEN BadLump
                         ELSE read_patches(w, lump.val, 4, count.val, <<>>, checks)
                 IN  explain(read(read_u32(lump.val.data, 0)),
                             Lump_error(lump.val, "bad patch list data", <<>>))
    IN  listed(Wad_lump(w, PNAMES))

PatchBank_len(self) == Len(self.patches)

\* A get that answers a listed patch without a lump as if out of range.
PatchBank_get_nameless(self, index) ==
    IF index >= Len(self.patches) THEN [tag |-> "Err", val |-> None]
    ELSE IF self.patches[index + 1].patch = None
      THEN [tag |-> "Err", val |-> None]
    ELSE Ok(self.patches[index + 1].patch.val)

\* Err(None): out of range.  Err(Some(name)): listed, no patch.
PatchBank_get(self, index) ==
    IF index >= Len(self.patches) THEN [tag |-> "Err", val |-> None]
    ELSE IF self.patches[index + 1].patch = None
      THEN [tag |-> "Err", val |-> Some(self.patches[index + 1].name)]
    ELSE Ok(self.patches[index + 1].patch.val)

-----------------------------------------------------------------------------
(* SpecPatchBank: a PatchBank is loaded from a stack and then read.        *)

MaxNames == 2

Le16(n) == <<n % 256, n \div 256>>

\* A patch of one column with one post of one pixel.
PatchBytes(pixel) ==
    Le16(1) \o Le16(1) \o Le16(0) \o Le16(0) \o Le32(12) \o <<0, 1, 0, pixel, 0, ColumnEnd>>

\* A patch lump whose column offset points past its end.
TruncatedPatch == Le16(1) \o Le16(1) \o Le16(0) \o Le16(0) \o Le32(12)

\* PNAMES data: a count and the names, each padded to 8 bytes.
RECURSIVE NameBytes(_)
NameBytes(names) ==
    IF names = <<>> THEN <<>> ELSE Pad(Head(names), NameLen) \o NameBytes(Tail(names))

PnamesData(count, names) == Le32(count) \o NameBytes(names)

NameLists == UNION {[1 .. n -> {NameA, NameB, LowerA, NameD}] : n \in 0 .. MaxNames}

PatchIwad(lumps) == F("doom.wad", Archive(MagicIwad, lumps))
PatchPwad(lumps) == F("killer.wad", Archive(MagicPwad, lumps))

\* The patch lumps of the base archive: A always, B good, bad or absent.
PatchLumps ==
    {<<L(NameA, PatchBytes(1))>>,
     <<L(NameA, PatchBytes(1)), L(NameB, PatchBytes(2))>>,
     <<L(NameA, PatchBytes(1)), L(NameB, TruncatedPatch)>>}

PatchWads ==
    {StackOf(<<PatchIwad(<<L(PNAMES, PnamesData(Len(names), names))>> \o lumps)>>) :
         names \in NameLists, lumps \in PatchLumps}
    \cup {StackOf(<<PatchIwad(<<L(PNAMES, data), L(NameA, PatchBytes(1))>>)>>) :
              data \in {<<>>, <<1, 0>>,
                        PnamesData(2, <<NameA>>),
                        PnamesData(1, <<NameA>>) \o <<65, 0, 0>>,
                        PnamesData(1, <<<<200>>>>),
                        PnamesData(0, <<NameA>>)}}
    \cup {StackOf(<<PatchIwad(<<L(NameA, PatchBytes(1))>>)>>)}
    \cup {StackOf(<<PatchIwad(<<L(PNAMES, PnamesData(2, <<NameA, NameD>>)),
                                L(NameA, PatchBytes(1))>>),
                    PatchPwad(lumps)>>) :
              lumps \in {<<L(NameD, PatchBytes(3))>>,
                         <<L(NameA, PatchBytes(4))>>,
                         <<L(NameA, TruncatedPatch)>>,
                         <<L(PNAMES, PnamesData(1, <<NameD>>))>>,
                         <<L(NameD, PatchBytes(3)), L(NameD, PatchBytes(5))>>}}

InitPatchBank == InitPalette

PatchBankLoad ==
    /\ wad = None
    /\ \E w \in PatchWads :
           \E result \in {PatchBank_load(w, build)} :
               /\ wad' = Ok(w)
               /\ bank' = IF result.tag = "Ok" THEN result ELSE bank
               /\ last' = [op |-> "load", res |-> result]
    /\ UNCHANGED <<cursor, file, stacks, build, colState, last_y_offset, posts>>

PatchBankLen ==
    /\ bank # None
    /\ last' = [op |-> "len", res |-> Ok(PatchBank_len(bank.val))]
    /\ UNCHANGED <<cursor, bank, wad, file, stacks, build, colState, last_y_offset, posts>>

PatchBankGet ==
    /\ bank # None
    /\ \E index \in 0 .. MaxNames + 1 :
           last' = [op |-> "get", index |-> index, res |-> PatchBank_get(bank.val, index)]
    /\ UNCHANGED <<cursor, bank, wad, file, stacks, build, colState, last_y_offset, posts>>

NextPatchBank ==
    \/ PatchBankLoad
    \/ PatchBankLen
    \/ PatchBankGet

SpecPatchBank == InitPatchBank /\ [][NextPatchBank]_vars

\* The PNAMES lump of the stack, its count and its i-th name (from 0).
Pnames == Wad_lump(wad.val, PNAMES)
PnamesCount == from_le_bytes(Slice(Pnames.val.data, 0, 4))
PnamesName(i) == parse_name(Slice(Pnames.val.data, 4 + NameLen * i, 12 + NameLen * i))

\* PNAMES holds its count and that many ASCII names, and every listed name
\* either has no lump in the stack or has one that decodes as a patch.
PnamesListsPatches ==
    /\ Pnames.tag = "Ok"
    /\ Len(Pnames.val.data) >= 4
    /\ Len(Pnames.val.data) >= 4 + NameLen * PnamesCount
    /\ \A i \in 0 .. PnamesCount - 1 :
           /\ \A k \in 1 .. NameLen : Pnames.val.data[4 + NameLen * i + k] < 128
           /\ LET lump == Wad_try_lump(wad.val, PnamesName(i))
              IN  \/ lump = None
                  \/ /\ lump.tag = "Some"
                     /\ Patch_load(lump.val, build).tag = "Ok"

\* C15: a loaded PatchBank has one entry per PNAMES name, in PNAMES order;
\* a listed name without a lump anywhere in the stack is kept and does not
\* fail the load; get(i) is Err(None) iff i is out of range, Err(Some(name))
\* iff entry i has no lump in the stack, and otherwise Ok of the patch
\* decoded from the lump of that name.
C15_PatchBankEntries ==
    /\ (last.op = "load" /\ PnamesListsPatches) => last.res.tag = "Ok"
    /\ bank # None =>
        /\ Pnames.tag = "Ok"
        /\ Len(bank.val.patches) = PnamesCount
        /\ \A i \in 0 .. PnamesCount - 1 :
               LET entry == bank.val.patches[i + 1]
                   lump == Wad_try_lump(wad.val, PnamesName(i))
               IN  /\ entry.name = PnamesName(i)
                   /\ (entry.patch = None) = (lump = None)
                   /\ entry.patch # None =>
                          /\ lump.tag = "Some"
                          /\ Ok(entry.patch.val) = Patch_load(lump.val, build)
        /\ last.op = "len" => last.res = Ok(PnamesCount)
        /\ last.op = "get" =>
               /\ (last.res = [tag |-> "Err", val |-> None]) = (last.index >= PnamesCount)
               /\ last.index < PnamesCount =>
                      LET lump == Wad_try_lump(wad.val, PnamesName(last.index))
                      IN  /\ (last.res = [tag |-> "Err",
                                          val |-> Some(PnamesName(last.index))])
                                 = (lump = None)
                          /\ lump # None =>
                                 /\ lump.tag = "Some"
                                 /\ last.res = Patch_load(lump.val, build)

\* A bank of two entries, the first with a patch and the second without a
\* lump, has been asked for the entry without a lump.
C15_Witness ==
    /\ bank # None
    /\ Len(bank.val.patches) = 2
    /\ bank.val.patches[1].patch # None
    /\ bank.val.patches[2].patch = None
    /\ last.op = "get"
    /\ last.index = 1
    /\ last.res = [tag |-> "Err", val |-> Some(NameD)]

-----------------------------------------------------------------------------
(* TextureBank: composite textures listed in TEXTURE1 and TEXTURE2.        *)

TEXTURE1 == <<84, 69, 88, 84, 85, 82, 69, 49>>
TEXTURE2 == <<84, 69, 88, 84, 85, 82, 69, 50>>

\* PatchPlacement::load at pos: x, y, patch index and two unused u16.
PatchPlacement_load(lump, pos, patches) ==
    LET data == lump.data
        placed(patch) ==
            IF patch.tag = "Ok"
              THEN Ok([x |-> read_u16(data, pos).val,
                       y |-> read_u16(data, pos + 2).val,
                       patch |-> patch.val])
            ELSE IF patch.val = None THEN BadLump
            ELSE Lump_error(lump, "texture needs missing patch", <<patch.val.val>>)
    IN  IF pos + 10 > Len(data) THEN BadLump
        ELSE placed(PatchBank_get(patches, read_u16(data, pos + 4).val))

\* The placement loop of Texture::load with count placements still to read.
RECURSIVE read_placements(_, _, _, _, _)
read_placements(lump, pos, count, placements, patches) ==
    LET pushed(placement) ==
            IF placement.tag # "Ok" THEN placement
            ELSE read_placements(lump, pos + 10, count - 1,
                     Append(placements, placement.val), patches)
    IN  IF count = 0 THEN Ok(placements)
        ELSE pushed(PatchPlacement_load(lump, pos, patches))

\* Texture::load with the cursor at pos.
Texture_load(lump, pos, patches) ==
    LET data == lump.data
        built(name, placements) ==
            IF placements.tag # "Ok" THEN placements
            ELSE Ok([name |-> name,
                     width |-> read_u16(data, pos + 12).val,
                     height |-> read_u16(data, pos + 14).val,
                     patches |-> placements.val])
        named(name) ==
            IF name.tag = "BadLump" THEN BadLump
            ELSE IF name.tag = "BadName" \/ ~is_legal(name.val)
              THEN Lump_error(lump, "bad texture name", <<name.val>>)
            ELSE IF pos + 22 > Len(data) THEN BadLump
            ELSE built(name.val,
                       read_placements(lump, pos + 22, read_u16(data, pos + 20).val,
                                       <<>>, patches))
    IN  named(read_name(data, pos))

\* A load_from whose map keeps the texture it already has under a name.
RECURSIVE read_textures_keep_first(_, _, _, _, _)
read_textures_keep_first(lump, count, k, textures, patches) ==
    LET inserted(texture) ==
            IF texture.tag # "Ok" THEN texture
            ELSE read_textures_keep_first(lump, count, k + 1,
                     textures @@ (texture.val.name :> texture.val), patches)
    IN  IF k = count THEN Ok(textures)
        ELSE inserted(Texture_load(lump, read_u32(lump.data, 4 + 4 * k).val, patches))

\* The second loop of load_from: texture k (from 0) of count.
RECURSIVE read_textures(_, _, _, _, _)
read_textures(lump, count, k, textures, patches) ==
    LET inserted(texture) ==
            IF texture.tag # "Ok" THEN texture
            ELSE read_textures(lump, count, k + 1,
                     (texture.val.name :> texture.val) @@ textures, patches)
    IN  IF k = count THEN Ok(textures)
        ELSE inserted(Texture_load(lump, read_u32(lump.data, 4 + 4 * k).val, patches))

TextureBank_load_from(lump, textures, patches) ==
    LET count == read_u32(lump.data, 0)
    IN  IF count.tag = "BadLump" THEN BadLump
        ELSE IF 4 + 4 * count.val > Len(lump.data) THEN BadLump
        ELSE read_textures(lump, count.val, 0, textures, patches)

\* TEXTURE1, and TEXTURE2 if there is one.
TextureBank_texture_lumps(w) ==
    LET chained(first, second) ==
            IF first.tag = "Err" THEN first
            ELSE IF second.tag = "Err" THEN second
            ELSE IF second.tag = "None" THEN Ok(<<first.val>>)
            ELSE Ok(<<first.val, second.val>>)
    IN  chained(Wad_lump(w, TEXTURE1), Wad_try_lump(w, TEXTURE2))

\* The loop of TextureBank::load over lumps i .. Len(lumps).
RECURSIVE load_texture_lumps(_, _, _, _)
load_texture_lumps(lumps, i, textures, patches) ==
    LET loaded(result) ==
            IF result.tag # "Ok" THEN result
            ELSE load_texture_lumps(lumps, i + 1, result.val, patches)
    IN  IF i > Len(lumps) THEN Ok([textures |-> textures])
        ELSE loaded(explain(TextureBank_load_from(lumps[i], textures, patches),
                            Lump_error(lumps[i], "bad texture data", <<>>)))

TextureBank_load(w, checks) ==
    LET listed(patches, lumps) ==
            IF patches.tag # "Ok" THEN patches
            ELSE IF lumps.tag # "Ok" THEN lumps
            ELSE load_texture_lumps(lumps.val, 1, <<>>, patches.val)
    IN  listed(PatchBank_load(w, checks), TextureBank_texture_lumps(w))

TextureBank_get(self, name) ==
    IF name \in DOMAIN self.textures THEN Some(self.textures[name]) ELSE None

\* Index<&str>: &self.0[name], which panics when the map has no such key.
TextureBank_index(self, name) ==
    IF name \in DOMAIN self.textures THEN Ok(self.textures[name]) ELSE Panic

-----------------------------------------------------------------------------
(* SpecTexture: a TextureBank is loaded from a stack and then read.        *)

MaxPlacements == 2

\* One texture of a texture lump: name, flags, unused, width, height,
\* unused, the placement count and the placements (x, y, index, unused).
RECURSIVE PlacementBytes(_)
PlacementBytes(indices) ==
    IF indices = <<>> THEN <<>>
    ELSE Le16(3) \o Le16(4) \o Le16(Head(indices)) \o Le16(0) \o Le16(0)
             \o PlacementBytes(Tail(indices))

TextureBytes(name, indices) ==
    Pad(name, NameLen) \o Le16(0) \o Le16(0) \o Le16(64) \o Le16(72) \o Le32(0)
        \o Le16(Len(indices)) \o PlacementBytes(indices)

\* A texture lump: count, one offset per texture, the textures.
RECURSIVE TextureOffsets(_, _)
TextureOffsets(textures, at) ==
    IF textures = <<>> THEN <<>>
    ELSE Le32(at) \o TextureOffsets(Tail(textures), at + Len(Head(textures)))

TextureData(textures) ==
    Le32(Len(textures)) \o TextureOffsets(textures, 4 + 4 * Len(textures))
        \o LumpBytes([k \in 1 .. Len(textures) |-> [data |-> textures[k]]])

\* Patch indices of one texture: 0 and 1 have a patch, 2 is listed without
\* a lump, 3 is past the end of the patch list.
IndexLists == UNION {[1 .. n -> 0 .. 3] : n \in 0 .. MaxPlacements}

TextureLists ==
    {<<>>}
    \cup {<<TextureBytes(NameA, first)>> : first \in IndexLists}
    \cup {<<TextureBytes(NameA, first), TextureBytes(NameB, <<second>>)>> :
              first \in IndexLists, second \in 0 .. 3}

\* PNAMES lists A and B, which have patch lumps, and D, which has none.
TextureBase ==
    <<L(PNAMES, PnamesData(3, <<NameA, NameB, NameD>>)),
      L(NameA, PatchBytes(1)), L(NameB, PatchBytes(2))>>

TextureIwad(lumps) == F("doom.wad", Archive(MagicIwad, TextureBase \o lumps))

TextureWads ==
    {StackOf(<<TextureIwad(<<L(TEXTURE1, TextureData(textures))>>)>>) :
         textures \in TextureLists}
    \cup {StackOf(<<TextureIwad(<<L(TEXTURE1, data)>>)>>) :
              data \in {<<>>, Le32(1), Le32(1) \o Le32(8),
                        Le32(1) \o Le32(8) \o Pad(NameA, NameLen),
                        TextureData(<<TextureBytes(LowerA, <<0>>)>>),
                        TextureData(<<TextureBytes(<<200>>, <<0>>)>>),
                        Le32(1) \o Le32(8) \o Pad(NameA, NameLen) \o Le16(0) \o Le16(0)
                            \o Le16(64) \o Le16(72) \o Le32(0) \o Le16(1) \o Le16(3),
                        TextureData(<<TextureBytes(NameA, <<0>>),
                                      TextureBytes(NameA, <<0, 0>>)>>)}}
    \cup {StackOf(<<TextureIwad(<<>>)>>),
          StackOf(<<TextureIwad(<<L(TEXTURE2, TextureData(<<TextureBytes(NameA, <<0>>)>>))>>)>>)}
    \cup {StackOf(<<TextureIwad(<<L(TEXTURE1, TextureData(<<TextureBytes(NameA, <<0>>)>>)),
                                  L(TEXTURE2, TextureData(<<TextureBytes(name, <<i>>)>>))>>)>>) :
              name \in {NameA, NameB}, i \in 0 .. 3}
    \cup {StackOf(<<TextureIwad(<<L(TEXTURE1, TextureData(<<TextureBytes(NameA, <<2>>)>>))>>),
                    F("killer.wad", Archive(MagicPwad, lumps))>>) :
              lumps \in {<<L(NameD, PatchBytes(3))>>,
                         <<L(NameD, TruncatedPatch)>>,
                         <<L(TEXTURE1, TextureData(<<TextureBytes(NameB, <<0>>)>>))>>,
                         <<L(TEXTURE1, TextureData(<<TextureBytes(NameB, <<3>>)>>))>>,
                         <<L(TEXTURE2, TextureData(<<TextureBytes(NameB, <<2>>)>>))>>,
                         <<L(PNAMES, PnamesData(1, <<NameA>>))>>}}

TextureNames == {NameA, NameB, LowerA}

InitTexture == InitPalette

TextureLoad ==
    /\ wad = None
    /\ \E w \in TextureWads :
           \E result \in {TextureBank_load(w, build)} :
               /\ wad' = Ok(w)
               /\ bank' = IF result.tag = "Ok" THEN result ELSE bank
               /\ last' = [op |-> "load", res |-> result]
    /\ UNCHANGED <<cursor, file, stacks, build, colState, last_y_offset, posts>>

TextureGet ==
    /\ bank # None
    /\ \E name \in TextureNames :
           last' = [op |-> "get", name |-> name, res |-> TextureBank_get(bank.val, name)]
    /\ UNCHANGED <<cursor, bank, wad, file, stacks, build, colState, last_y_offset, posts>>

TextureIndex ==
    /\ bank # None
    /\ \E name \in TextureNames :
           last' = [op |-> "index", name |-> name,
                    res |-> TextureBank_index(bank.val, name)]
    /\ UNCHANGED <<cursor, bank, wad, file, stacks, build, colState, last_y_offset, posts>>

NextTexture ==
    \/ TextureLoad
    \/ TextureGet
    \/ TextureIndex

SpecTexture == InitTexture /\ [][NextTexture]_vars

\* What the texture loader reads: the patch list and the texture lumps.
TexturePatches == PatchBank_load(wad.val, build)
TextureLumps == TextureBank_texture_lumps(wad.val)

\* Fields of texture t (from 0) of a texture lump's data, by position.
TextureCount(data) == from_le_bytes(Slice(data, 0, 4))
TextureOffset(data, t) == from_le_bytes(Slice(data, 4 + 4 * t, 8 + 4 * t))
PlacementCount(data, t) ==
    data[TextureOffset(data, t) + 21] + 256 * data[TextureOffset(data, t) + 22]
PlacementIndex(data, t, p) ==
    data[TextureOffset(data, t) + 22 + 10 * p + 5]
        + 256 * data[TextureOffset(data, t) + 22 + 10 * p + 6]

\* The lump holds its offsets and, at each, a legally named texture with
\* all the placements it counts.
WellLaid(data) ==
    /\ Len(data) >= 4
    /\ Len(data) >= 4 + 4 * TextureCount(data)
    /\ \A t \in 0 .. TextureCount(data) - 1 :
           /\ Len(data) >= TextureOffset(data, t) + 22
           /\ \A k \in 1 .. NameLen : data[TextureOffset(data, t) + k] < 128
           /\ is_legal(parse_name(Slice(data, TextureOffset(data, t),
                                        TextureOffset(data, t) + NameLen)))
           /\ Len(data) >= TextureOffset(data, t) + 22 + 10 * PlacementCount(data, t)

\* Placements <<lump, texture, placement>> of the texture lumps whose index
\* is past the patch list (Unlisted) or names an entry without a patch.
AllPlacements ==
    {<<i, t, p>> \in (1 .. Len(TextureLumps.val)) \X (0 .. 2) \X (0 .. MaxPlacements) :
         /\ t < TextureCount(TextureLumps.val[i].data)
         /\ p < PlacementCount(TextureLumps.val[i].data, t)}
IndexOf(a) == PlacementIndex(TextureLumps.val[a[1]].data, a[2], a[3])
Unlisted == {a \in AllPlacements : IndexOf(a) >= Len(TexturePatches.val.patches)}
Patchless ==
    {a \in AllPlacements \ Unlisted :
         TexturePatches.val.patches[IndexOf(a) + 1].patch = None}
ReadBefore(a, b) ==
    \/ a[1] < b[1]
    \/ a[1] = b[1] /\ a[2] < b[2]
    \/ a[1] = b[1] /\ a[2] = b[2] /\ a[3] < b[3]
FirstBad ==
    CHOOSE a \in Unlisted \cup Patchless :
        \A b \in Unlisted \cup Patchless : a = b \/ ReadBefore(a, b)

\* C16: every placement of every texture of a loaded bank holds a patch of
\* the patch bank; a placement whose index is not below the patch bank's
\* length fails the load with a Malformed error, and one whose index names
\* a PNAMES entry without a lump fails it with an error that gives the
\* missing patch's name.
C16_PlacementsHavePatches ==
    /\ bank # None =>
           \A name \in DOMAIN bank.val.textures :
               \A k \in 1 .. Len(bank.val.textures[name].patches) :
                   \E i \in 1 .. Len(TexturePatches.val.patches) :
                       TexturePatches.val.patches[i].patch
                           = Some(bank.val.textures[name].patches[k].patch)
    /\ (/\ last.op = "load"
        /\ TexturePatches.tag = "Ok"
        /\ TextureLumps.tag = "Ok"
        /\ \A i \in 1 .. Len(TextureLumps.val) : WellLaid(TextureLumps.val[i].data)) =>
           IF Unlisted \cup Patchless = {} THEN last.res.tag = "Ok"
           ELSE /\ last.res.tag = "Err"
                /\ last.res.err = "Malformed"
                /\ last.res.path = TextureLumps.val[FirstBad[1]].file
                /\ FirstBad \in Patchless =>
                       last.res.subject
                           = <<TexturePatches.val.patches[IndexOf(FirstBad) + 1].name>>

\* A load has failed on a texture whose first placement has a patch and
\* whose second names the PNAMES entry without a lump.
C16_Witness ==
    /\ last.op = "load"
    /\ last.res.tag = "Err"
    /\ TexturePatches.tag = "Ok"
    /\ TextureLumps.tag = "Ok"
    /\ WellLaid(TextureLumps.val[1].data)
    /\ <<1, 0, 1>> \in Patchless
    /\ FirstBad = <<1, 0, 1>>
    /\ last.res.subject = <<NameD>>

-----------------------------------------------------------------------------
(* Maps: Map::load reads the block of 11 lumps that starts at the map's    *)
(* name marker and checks every reference between its records.             *)

THINGS == <<84, 72, 73, 78, 71, 83>>
LINEDEFS == <<76, 73, 78, 69, 68, 69, 70, 83>>
SIDEDEFS == <<83, 73, 68, 69, 68, 69, 70, 83>>
VERTEXES == <<86, 69, 82, 84, 69, 88, 69, 83>>
SEGS == <<83, 69, 71, 83>>
SSECTORS == <<83, 83, 69, 67, 84, 79, 82, 83>>
NODES == <<78, 79, 68, 69, 83>>
SECTORS == <<83, 69, 67, 84, 79, 82, 83>>
REJECT == <<82, 69, 74, 69, 67, 84>>
BLOCKMAP == <<66, 76, 79, 67, 75, 77, 65, 80>>
E1M1 == <<69, 49, 77, 49>>
E9M9 == <<69, 57, 77, 57>>
LowerE1M1 == <<101, 49, 109, 49>>
NoTexture == <<45>>

Lump_expect_name(lump, name) ==
    IF lump.name = name THEN Ok(lump) ELSE Lump_error(lump, "missing", <<name>>)

\* Cursor::get_name at pos: split_to(8), then parse_name.
get_name(data, pos) == parse_name(Slice(data, pos, pos + NameLen))

get_u16_le(data, pos) == data[pos + 1] + 256 * data[pos + 2]

get_i16_le(data, pos) ==
    IF get_u16_le(data, pos) > 32767 THEN get_u16_le(data, pos) - 65536
    ELSE get_u16_le(data, pos)

\* while cursor.has_remaining() { cursor.need(4)?; ... } of Vertexes::load.
RECURSIVE read_vertexes(_, _, _)
read_vertexes(lump, pos, vertexes) ==
    IF pos >= Len(lump.data) THEN Ok(vertexes)
    ELSE IF Len(lump.data) - pos < 4 THEN Lump_error(lump, "not enough data", <<>>)
    ELSE read_vertexes(lump, pos + 4,
             Append(vertexes, [x |-> get_i16_le(lump.data, pos),
                               y |-> get_i16_le(lump.data, pos + 2)]))

Vertexes_load(lumps) ==
    IF Lump_expect_name(lumps[5], VERTEXES).tag = "Err"
      THEN Lump_expect_name(lumps[5], VERTEXES)
    ELSE read_vertexes(lumps[5], 0, <<>>)

\* The loop of Sectors::load; flat_name checks each name in the flat bank.
RECURSIVE read_sectors(_, _, _, _)
read_sectors(lump, pos, sectors, assets) ==
    LET data == lump.data
        floor_flat == get_name(data, pos + 4)
        ceiling_flat == get_name(data, pos + 12)
    IN  IF pos >= Len(data) THEN Ok(sectors)
        ELSE IF Len(data) - pos < 26 THEN Lump_error(lump, "not enough data", <<>>)
        ELSE IF FlatBank_get(assets.flat_bank, floor_flat) = None
          THEN Lump_error(lump, "sector has invalid floor flat", <<Len(sectors), floor_flat>>)
        ELSE IF FlatBank_get(assets.flat_bank, ceiling_flat) = None
          THEN Lump_error(lump, "sector has invalid ceiling flat",
                          <<Len(sectors), ceiling_flat>>)
        ELSE read_sectors(lump, pos + 26,
                 Append(sectors,
                     [floor_height |-> get_i16_le(data, pos),
                      ceiling_height |-> get_i16_le(data, pos + 2),
                      floor_flat |-> floor_flat,
                      ceiling_flat |-> ceiling_flat,
                      light_level |-> IF get_u16_le(data, pos + 20) > 255 THEN 255
                                      ELSE get_u16_le(data, pos + 20),
                      special_type |-> get_u16_le(data, pos + 22),
                      tag |-> get_u16_le(data, pos + 24)]),
                 assets)

Sectors_load(lumps, assets) ==
    IF Lump_expect_name(lumps[9], SECTORS).tag = "Err"
      THEN Lump_expect_name(lumps[9], SECTORS)
    ELSE read_sectors(lumps[9], 0, <<>>, assets)

\* texture_name of Sidedefs::load: "-" is no texture, any other name must
\* be in the texture bank.
texture_name(name, assets) ==
    IF name = NoTexture THEN Ok(None)
    ELSE IF TextureBank_get(assets.texture_bank, name) = None THEN StringErr("invalid", name)
    ELSE Ok(Some(name))

\* A sidedef loop that takes every texture name as it is.
RECURSIVE read_sidedefs_unresolved(_, _, _, _, _)
read_sidedefs_unresolved(lump, pos, sidedefs, assets, sectors) ==
    LET data == lump.data
        sector == get_u16_le(data, pos + 28)
        named(name) == IF name = NoTexture THEN None ELSE Some(name)
    IN  IF pos >= Len(data) THEN Ok(sidedefs)
        ELSE IF Len(data) - pos < 30 THEN Lump_error(lump, "not enough data", <<>>)
        ELSE IF sector >= Len(sectors)
          THEN Lump_error(lump, "sidedef has invalid sector", <<Len(sidedefs), sector>>)
        ELSE read_sidedefs_unresolved(lump, pos + 30,
                 Append(sidedefs,
                     [x_offset |-> get_i16_le(data, pos),
                      y_offset |-> get_i16_le(data, pos + 2),
                      upper_texture |-> named(get_name(data, pos + 4)),
                      lower_texture |-> named(get_name(data, pos + 12)),
                      middle_texture |-> named(get_name(data, pos + 20)),
                      sector |-> sector]),
                 assets, sectors)

\* The loop of Sidedefs::load.
RECURSIVE read_sidedefs(_, _, _, _, _)
read_sidedefs(lump, pos, sidedefs, assets, sectors) ==
    LET data == lump.data
        upper_texture == texture_name(get_name(data, pos + 4), assets)
        lower_texture == texture_name(get_name(data, pos + 12), assets)
        middle_texture == texture_name(get_name(data, pos + 20), assets)
        sector == get_u16_le(data, pos + 28)
    IN  IF pos >= Len(data) THEN Ok(sidedefs)
        ELSE IF Len(data) - pos < 30 THEN Lump_error(lump, "not enough data", <<>>)
        ELSE IF upper_texture.tag = "Err"
          THEN Lump_error(lump, "sidedef has invalid upper texture",
                          <<Len(sidedefs), upper_texture.subject>>)
        ELSE IF lower_texture.tag = "Err"
          THEN Lump_error(lump, "sidedef has invalid lower texture",
                          <<Len(sidedefs), lower_texture.subject>>)
        ELSE IF middle_texture.tag = "Err"
          THEN Lump_error(lump, "sidedef has invalid middle texture",
                          <<Len(sidedefs), middle_texture.subject>>)
        ELSE IF sector >= Len(sectors)
          THEN Lump_error(lump, "sidedef has invalid sector", <<Len(sidedefs), sector>>)
        ELSE read_sidedefs(lump, pos + 30,
                 Append(sidedefs,
                     [x_offset |-> get_i16_le(data, pos),
                      y_offset |-> get_i16_le(data, pos + 2),
                      upper_texture |-> upper_texture.val,
                      lower_texture |-> lower_texture.val,
                      middle_texture |-> middle_texture.val,
                      sector |-> sector]),
                 assets, sectors)

\* A Sidedefs::load that does not look the texture names up.
Sidedefs_load_unresolved(lumps, assets, sectors) ==
    IF Lump_expect_name(lumps[4], SIDEDEFS).tag = "Err"
      THEN Lump_expect_name(lumps[4], SIDEDEFS)
    ELSE read_sidedefs_unresolved(lumps[4], 0, <<>>, assets, sectors)

Sidedefs_load(lumps, assets, sectors) ==
    IF Lump_expect_name(lumps[4], SIDEDEFS).tag = "Err"
      THEN Lump_expect_name(lumps[4], SIDEDEFS)
    ELSE read_sidedefs(lumps[4], 0, <<>>, assets, sectors)

\* sidedef_number of Linedefs::load: u16::MAX is no sidedef.
sidedef_number(sidedef, sidedefs) ==
    IF sidedef = U16Max THEN Ok(None)
    ELSE IF sidedef >= Len(sidedefs) THEN StringErr("invalid", sidedef)
    ELSE Ok(Some(sidedef))

\* The loop of Linedefs::load.
RECURSIVE read_linedefs(_, _, _, _, _)
read_linedefs(lump, pos, linedefs, vertexes, sidedefs) ==
    LET data == lump.data
        start_vertex == get_u16_le(data, pos)
        end_vertex == get_u16_le(data, pos + 2)
        right_sidedef == sidedef_number(get_u16_le(data, pos + 10), sidedefs)
        left_sidedef == sidedef_number(get_u16_le(data, pos + 12), sidedefs)
    IN  IF pos >= Len(data) THEN Ok(linedefs)
        ELSE IF Len(data) - pos < 14 THEN Lump_error(lump, "not enough data", <<>>)
        ELSE IF start_vertex >= Len(vertexes)
          THEN Lump_error(lump, "linedef has invalid start vertex",
                          <<Len(linedefs), start_vertex>>)
        ELSE IF end_vertex >= Len(vertexes)
          THEN Lump_error(lump, "linedef has invalid end vertex",
                          <<Len(linedefs), end_vertex>>)
        ELSE IF right_sidedef.tag = "Err"
          THEN Lump_error(lump, "linedef has invalid right sidedef",
                          <<Len(linedefs), right_sidedef.subject>>)
        ELSE IF right_sidedef.val = None
          THEN Lump_error(lump, "linedef missing right sidedef", <<Len(linedefs)>>)
        ELSE IF left_sidedef.tag = "Err"
          THEN Lump_error(lump, "linedef has invalid left sidedef",
                          <<Len(linedefs), left_sidedef.subject>>)
        ELSE read_linedefs(lump, pos + 14,
                 Append(linedefs,
                     [start_vertex |-> start_vertex,
                      end_vertex |-> end_vertex,
                      flags |-> get_u16_le(data, pos + 4),
                      types |-> get_u16_le(data, pos + 6),
                      tag |-> get_u16_le(data, pos + 8),
                      right_sidedef |-> right_sidedef.val.val,
                      left_sidedef |-> left_sidedef.val]),
                 vertexes, sidedefs)

Linedefs_load(lumps, vertexes, sidedefs) ==
    IF Lump_expect_name(lumps[3], LINEDEFS).tag = "Err"
      THEN Lump_expect_name(lumps[3], LINEDEFS)
    ELSE read_linedefs(lumps[3], 0, <<>>, vertexes, sidedefs)

\* Map::load after the block was found.
Map_read(lumps, name, assets) ==
    LET lined(vertexes, sectors, sidedefs, linedefs) ==
            IF linedefs.tag = "Err" THEN linedefs
            ELSE Ok(Some([name |-> name,
                          vertexes |-> vertexes.val,
                          sidedefs |-> sidedefs.val,
                          linedefs |-> linedefs.val,
                          sectors |-> sectors.val]))
        sided(vertexes, sectors, sidedefs) ==
            IF sidedefs.tag = "Err" THEN sidedefs
            ELSE lined(vertexes, sectors, sidedefs,
                       Linedefs_load(lumps, vertexes.val, sidedefs.val))
        sectored(vertexes, sectors) ==
            IF sectors.tag = "Err" THEN sectors
            ELSE sided(vertexes, sectors, Sidedefs_load(lumps, assets, sectors.val))
        vertexed(vertexes) ==
            IF vertexes.tag = "Err" THEN vertexes
            ELSE sectored(vertexes, Sectors_load(lumps, assets))
    IN  IF Lump_expect_name(lumps[2], THINGS).tag = "Err"
          THEN Lump_expect_name(lumps[2], THINGS)
        ELSE vertexed(Vertexes_load(lumps))

\* A load that answers a block it cannot take whole as a missing map.
Map_load_lenient(w, name, assets) ==
    LET found(lumps) ==
            IF lumps.tag \in {"Err", "Panic"} THEN Ok(None)
            ELSE IF lumps.tag = "None" THEN Ok(None)
            ELSE Map_read(lumps.val, name, assets)
    IN  found(Wad_try_lumps_following(w, name, 11))

Map_load(w, name, assets) ==
    LET found(lumps) ==
            IF lumps.tag \in {"Err", "Panic"} THEN lumps
            ELSE IF lumps.tag = "None" THEN Ok(None)
            ELSE Map_read(lumps.val, name, assets)
    IN  found(Wad_try_lumps_following(w, name, 11))

\* Assets::load: the four banks, each loaded from the stack.
Assets_load(w, checks) ==
    LET textured(palette_bank, flat_bank, patch_bank, texture_bank) ==
            IF texture_bank.tag # "Ok" THEN texture_bank
            ELSE Ok([palette_bank |-> palette_bank.val,
                     flat_bank |-> flat_bank.val,
                     patch_bank |-> patch_bank.val,
                     texture_bank |-> texture_bank.val])
        patched(palette_bank, flat_bank, patch_bank) ==
            IF patch_bank.tag # "Ok" THEN patch_bank
            ELSE textured(palette_bank, flat_bank, patch_bank, TextureBank_load(w, checks))
        flatted(palette_bank, flat_bank) ==
            IF flat_bank.tag # "Ok" THEN flat_bank
            ELSE patched(palette_bank, flat_bank, PatchBank_load(w, checks))
        paletted(palette_bank) ==
            IF palette_bank.tag # "Ok" THEN palette_bank
            ELSE flatted(palette_bank, FlatBank_load(w))
    IN  paletted(PaletteBank_load(w))

-----------------------------------------------------------------------------
(* SpecMap: a stack is opened and maps are loaded from it by name, with    *)
(* the assets of the game archive.                                         *)

MaxVertexes == 2

\* The game archive's assets: a palette, the flat A, the patch B and the
\* texture C made of that patch.
AssetLumps ==
    <<L(PLAYPAL, PaletteFill(1, 10)),
      L(F_START, <<>>), L(NameA, Filled(Flat_size, 7)), L(F_END, <<>>),
      L(PNAMES, PnamesData(1, <<NameB>>)), L(NameB, PatchBytes(1)),
      L(TEXTURE1, TextureData(<<TextureBytes(NameC, <<0>>)>>))>>

MapAssets == Assets_load(StackOf(<<F("doom.wad", Archive(MagicIwad, AssetLumps))>>), "checked")

\* The records of the map lumps, as bytes.
VertexBytes(n) == LumpBytes([k \in 1 .. n |-> [data |-> Le16(k) \o Le16(65536 - k)]])

SectorBytes(floor, ceiling) ==
    Le16(0) \o Le16(128) \o Pad(floor, NameLen) \o Pad(ceiling, NameLen)
        \o Le16(300) \o Le16(0) \o Le16(0)

SidedefBytes(upper, lower, middle, sector) ==
    Le16(0) \o Le16(0) \o Pad(upper, NameLen) \o Pad(lower, NameLen)
        \o Pad(middle, NameLen) \o Le16(sector)

LinedefBytes(start, end, right, left) ==
    Le16(start) \o Le16(end) \o Le16(1) \o Le16(0) \o Le16(0) \o Le16(right) \o Le16(left)

\* The 11 lumps of a map and one lump after them.
MapLumps(name, linedefs, sidedefs, vertexes, sectors) ==
    <<L(name, <<>>), L(THINGS, <<>>), L(LINEDEFS, linedefs), L(SIDEDEFS, sidedefs),
      L(VERTEXES, vertexes), L(SEGS, <<>>), L(SSECTORS, <<>>), L(NODES, <<>>),
      L(SECTORS, sectors), L(REJECT, <<>>), L(BLOCKMAP, <<>>), L(NameD, <<1>>)>>

GoodSector == SectorBytes(NameA, NameA)
GoodSidedef == SidedefBytes(NoTexture, NoTexture, NameC, 0)
GoodLinedef == LinedefBytes(0, 0, 0, U16Max)
GoodMap == MapLumps(E1M1, GoodLinedef, GoodSidedef, VertexBytes(1), GoodSector)

MapIwad(lumps) == F("doom.wad", Archive(MagicIwad, lumps))
MapPwad(lumps) == F("killer.wad", Archive(MagicPwad, lumps))

SidedefNumbers == {0, 1, U16Max}
TextureChoices == {NoTexture, NameC, NameE}
FlatChoices == {NameA, NameE, NoTexture}

MapWads ==
    {StackOf(<<MapIwad(MapLumps(E1M1, LinedefBytes(start, end, right, left),
                                GoodSidedef, VertexBytes(n), GoodSector))>>) :
         <<start, end>> \in (0 .. MaxVertexes) \X (0 .. MaxVertexes),
         <<right, left>> \in SidedefNumbers \X SidedefNumbers,
         n \in MaxVertexes - 1 .. MaxVertexes}
    \cup {StackOf(<<MapIwad(MapLumps(E1M1, GoodLinedef,
                                SidedefBytes(upper, lower, middle, sector),
                                VertexBytes(1), GoodSector))>>) :
              <<upper, lower>> \in TextureChoices \X TextureChoices,
              middle \in TextureChoices \cup {<<99>>},
              sector \in 0 .. 1}
    \cup {StackOf(<<MapIwad(MapLumps(E1M1, GoodLinedef, GoodSidedef, VertexBytes(1),
                                SectorBytes(floor, ceiling)))>>) :
              floor \in FlatChoices, ceiling \in FlatChoices \cup {LowerA}}
    \cup {StackOf(<<MapIwad(lumps)>>) :
              lumps \in {MapLumps(E1M1, <<>>, <<>>, <<>>, <<>>),
                         MapLumps(E1M1, GoodLinedef \o <<0>>, GoodSidedef, VertexBytes(1),
                                  GoodSector),
                         MapLumps(E1M1, GoodLinedef, GoodSidedef \o <<0>>, VertexBytes(1),
                                  GoodSector),
                         MapLumps(E1M1, GoodLinedef, GoodSidedef, VertexBytes(1) \o <<0>>,
                                  GoodSector),
                         MapLumps(E1M1, GoodLinedef, GoodSidedef, VertexBytes(1),
                                  GoodSector \o <<0>>),
                         MapLumps(E1M1, GoodLinedef \o LinedefBytes(0, 0, 1, 0),
                                  GoodSidedef \o SidedefBytes(NameC, NameC, NameC, 1),
                                  VertexBytes(1), GoodSector \o GoodSector),
                         SubSeq(GoodMap, 1, 11),
                         Tail(GoodMap),
                         <<L(NameD, <<1>>)>> \o Tail(GoodMap),
                         <<L(E1M1, <<>>), L(NameD, <<1>>)>> \o Tail(GoodMap),
                         <<L(E1M1, <<>>), L(E1M1, <<>>)>> \o Tail(GoodMap),
                         <<L(E1M1, <<>>), L(THINGS, <<>>), L(SIDEDEFS, GoodSidedef),
                           L(LINEDEFS, GoodLinedef)>> \o SubSeq(GoodMap, 5, 12)}}
    \cup {StackOf(<<MapIwad(GoodMap), MapPwad(lumps)>>) :
              lumps \in {<<L(NameD, <<1>>)>>,
                         MapLumps(E1M1, LinedefBytes(1, 0, 0, 0), GoodSidedef,
                                  VertexBytes(1), GoodSector),
                         MapLumps(E9M9, GoodLinedef, GoodSidedef, VertexBytes(1),
                                  GoodSector),
                         SubSeq(GoodMap, 1, 11),
                         <<L(LINEDEFS, LinedefBytes(1, 0, 0, 0))>>}}
    \cup {StackOf(<<MapIwad(<<L(NameD, <<1>>)>>), MapPwad(GoodMap)>>)}

MapNames == {E1M1, E9M9, LowerE1M1}

InitMap == InitPalette

MapOpen ==
    /\ wad = None
    /\ \E w \in MapWads :
           /\ wad' = Ok(w)
           /\ bank' = MapAssets
           /\ last' = [op |-> "open"]
    /\ UNCHANGED <<cursor, file, stacks, build, colState, last_y_offset, posts>>

MapLoad ==
    /\ wad # None
    /\ \E name \in MapNames :
           \E result \in {Map_load(wad.val, name, bank.val)} :
               last' = [op |-> "load", name |-> name, res |-> result]
    /\ UNCHANGED <<cursor, bank, wad, file, stacks, build, colState, last_y_offset, posts>>

NextMap ==
    \/ MapOpen
    \/ MapLoad

SpecMap == InitMap /\ [][NextMap]_vars

\* The block of the map that was asked for, as the stack resolves it, and
\* the record counts and fields of its lumps, taken from the bytes.
MapBlock == Wad_try_lumps_following(wad.val, last.name, 11)
LinedefsData == MapBlock.val[3].data
SidedefsData == MapBlock.val[4].data
VertexesData == MapBlock.val[5].data
SectorsData == MapBlock.val[9].data

\* Every lump of the block has its name and holds whole records.
MapWellFormed ==
    /\ MapBlock.tag = "Some"
    /\ MapBlock.val[2].name = THINGS
    /\ MapBlock.val[3].name = LINEDEFS /\ Len(LinedefsData) % 14 = 0
    /\ MapBlock.val[4].name = SIDEDEFS /\ Len(SidedefsData) % 30 = 0
    /\ MapBlock.val[5].name = VERTEXES /\ Len(VertexesData) % 4 = 0
    /\ MapBlock.val[9].name = SECTORS /\ Len(SectorsData) % 26 = 0

LinedefField(k, at) == get_u16_le(LinedefsData, 14 * k + at)

\* The references of the block's records all resolve.
MapReferencesResolve ==
    /\ \A k \in 0 .. (Len(LinedefsData) \div 14) - 1 :
           /\ LinedefField(k, 0) < Len(VertexesData) \div 4
           /\ LinedefField(k, 2) < Len(VertexesData) \div 4
           /\ LinedefField(k, 10) # 65535
           /\ LinedefField(k, 10) < Len(SidedefsData) \div 30
           /\ \/ LinedefField(k, 12) = 65535
              \/ LinedefField(k, 12) < Len(SidedefsData) \div 30
    /\ \A k \in 0 .. (Len(SidedefsData) \div 30) - 1 :
           /\ get_u16_le(SidedefsData, 30 * k + 28) < Len(SectorsData) \div 26
           /\ \A at \in {4, 12, 20} :
                  \/ get_name(SidedefsData, 30 * k + at) = NoTexture
                  \/ get_name(SidedefsData, 30 * k + at) \in DOMAIN bank.val.texture_bank.textures
    /\ \A k \in 0 .. (Len(SectorsData) \div 26) - 1 :
           \A at \in {4, 12} :
               get_name(SectorsData, 26 * k + at) \in DOMAIN bank.val.flat_bank.flats

\* C17: in a loaded map every linedef's vertexes are below the vertex
\* count, its right sidedef is present and below the sidedef count, its
\* left sidedef is absent or below the sidedef count, every sidedef's sector
\* is below the sector count, every sidedef texture other than "-" is in
\* the texture bank and every sector's flats are in the flat bank; a block
\* that breaks any of these makes Map::load return an error.
C17_MapReferencesValid ==
    /\ (last.op = "load" /\ last.res.tag = "Ok" /\ last.res.val # None) =>
           LET map == last.res.val.val
           IN  /\ \A k \in 1 .. Len(map.linedefs) :
                      /\ map.linedefs[k].start_vertex < Len(map.vertexes)
                      /\ map.linedefs[k].end_vertex < Len(map.vertexes)
                      /\ map.linedefs[k].right_sidedef # 65535
                      /\ map.linedefs[k].right_sidedef < Len(map.sidedefs)
                      /\ \/ map.linedefs[k].left_sidedef = None
                         \/ /\ map.linedefs[k].left_sidedef.val # 65535
                            /\ map.linedefs[k].left_sidedef.val < Len(map.sidedefs)
               /\ \A k \in 1 .. Len(map.sidedefs) :
                      /\ map.sidedefs[k].sector < Len(map.sectors)
                      /\ \A texture \in {map.sidedefs[k].upper_texture,
                                         map.sidedefs[k].lower_texture,
                                         map.sidedefs[k].middle_texture} :
                             \/ texture = None
                             \/ /\ texture.val # NoTexture
                                /\ TextureBank_get(bank.val.texture_bank, texture.val) # None
               /\ \A k \in 1 .. Len(map.sectors) :
                      /\ FlatBank_get(bank.val.flat_bank, map.sectors[k].floor_flat) # None
                      /\ FlatBank_get(bank.val.flat_bank, map.sectors[k].ceiling_flat) # None
               /\ Len(map.linedefs) = Len(LinedefsData) \div 14
               /\ Len(map.sidedefs) = Len(SidedefsData) \div 30
               /\ Len(map.vertexes) = Len(VertexesData) \div 4
               /\ Len(map.sectors) = Len(SectorsData) \div 26
    /\ (last.op = "load" /\ MapWellFormed) =>
           IF MapReferencesResolve THEN last.res.tag = "Ok" /\ last.res.val # None
           ELSE last.res.tag = "Err"

\* A map of two linedefs, two sidedefs with textures and two sectors has
\* been loaded; its second linedef has a left sidedef.
C17_Witness ==
    /\ last.op = "load"
    /\ last.res.tag = "Ok"
    /\ last.res.val # None
    /\ Len(last.res.val.val.linedefs) = 2
    /\ last.res.val.val.linedefs[2].left_sidedef = Some(0)
    /\ last.res.val.val.linedefs[2].right_sidedef = 1
    /\ last.res.val.val.sidedefs[2].upper_texture = Some(NameC)
    /\ last.res.val.val.sidedefs[2].sector = 1

\* C18: Map::load returns Ok(None) exactly when no archive of the stack has
\* the map's name marker in its directory; with the marker in some archive
\* it returns the decoded map or an error.
C18_NoneIffMarkerAbsent ==
    last.op = "load" =>
        /\ (last.res = Ok(None)) = (Holders(last.name) = {})
        /\ Holders(last.name) # {} =>
               \/ last.res.tag = "Err"
               \/ /\ last.res.tag = "Ok"
                  /\ last.res.val.tag = "Some"
                  /\ last.res.val.val.name = last.name

\* E9M9 has been asked of a stack none of whose two archives has it, after
\* which the stack still answers E1M1 with a map.
C18_Witness ==
    /\ last.op = "load"
    /\ last.name = E9M9
    /\ last.res = Ok(None)
    /\ Len(Archives) = 2
    /\ Holders(E1M1) # {}
    /\ Map_load(wad.val, E1M1, bank.val).tag = "Ok"

-----------------------------------------------------------------------------
(* SpecCase: archives and stacks are asked for names in either case.       *)

NameAB == <<65, 66>>
LowerB == <<98>>
LowerE == <<101>>

CaseNames == {NameA, LowerA, NameB, LowerB, NameE, LowerE, NameAB, <<97, 66>>, <<97, 98>>}

CaseIwad ==
    F("doom.wad",
      Archive(MagicIwad,
          <<L(NameA, <<1>>), L(NameAB, <<2>>), L(NameB, <<3>>), L(NameC, <<4>>),
            L(NameD, <<5>>)>>))

CasePwads ==
    {F("killer.wad", Archive(MagicPwad, lumps)) :
         lumps \in {<<L(NameB, <<6>>), L(NameA, <<7>>), L(NameC, <<8>>)>>,
                    <<L(NameA, <<1>>), L(NameA, <<2>>), L(NameC, <<8>>)>>,
                    <<L(NameAB, <<6>>), L(NameE, <<7>>), L(NameC, <<8>>)>>}}

CaseWads == {StackOf(<<CaseIwad>>)} \cup {StackOf(<<CaseIwad, pwad>>) : pwad \in CasePwads}

CaseOps == LumpOps \cup BlockOps
CaseEnds(op) ==
    IF op \in {"try_lumps_between", "lumps_between"} THEN {NameC, <<99>>, LowerE} ELSE {<<>>}
CaseSizes(op) == IF op \in {"try_lumps_following", "lumps_following"} THEN {1, 2} ELSE {0}

\* The lookups of one archive and of a stack, by the name of the method.
FileCall(f, op, name, end, size) ==
    CASE op = "lump" -> WadFile_lump(f, name)
      [] op = "try_lump" -> WadFile_try_lump(f, name)
      [] op = "lumps_following" -> WadFile_lumps_following(f, name, size)
      [] op = "try_lumps_following" -> WadFile_try_lumps_following(f, name, size)
      [] op = "lumps_between" -> WadFile_lumps_between(f, name, end)
      [] op = "try_lumps_between" -> WadFile_try_lumps_between(f, name, end)

StackCall(w, op, name, end, size) ==
    CASE op = "lump" -> Wad_lump(w, name)
      [] op = "try_lump" -> Wad_try_lump(w, name)
      [] op = "lumps_following" -> Wad_lumps_following(w, name, size)
      [] op = "try_lumps_following" -> Wad_try_lumps_following(w, name, size)
      [] op = "lumps_between" -> Wad_lumps_between(w, name, end)
      [] op = "try_lumps_between" -> Wad_try_lumps_between(w, name, end)

InitCase == InitPalette

CaseOpen ==
    /\ wad = None
    /\ \E w \in CaseWads :
           /\ wad' = Ok(w)
           /\ last' = [op |-> "open"]
    /\ UNCHANGED <<cursor, bank, file, stacks, build, colState, last_y_offset, posts>>

\* A lookup in one archive of the stack.
CaseFile ==
    /\ wad # None
    /\ \E i \in 0 .. Len(wad.val.patches), op \in CaseOps, name \in CaseNames :
           \E end \in CaseEnds(op), size \in CaseSizes(op) :
               last' = [op |-> op, level |-> "file", archive |-> i, name |-> name,
                        end |-> end, size |-> size,
                        res |-> FileCall(Wad_file(wad.val, i), op, name, end, size)]
    /\ UNCHANGED <<cursor, bank, wad, file, stacks, build, colState, last_y_offset, posts>>

\* A lookup in the stack.
CaseStack ==
    /\ wad # None
    /\ \E op \in CaseOps, name \in CaseNames :
           \E end \in CaseEnds(op), size \in CaseSizes(op) :
               last' = [op |-> op, level |-> "stack", archive |-> 0, name |-> name,
                        end |-> end, size |-> size,
                        res |-> StackCall(wad.val, op, name, end, size)]
    /\ UNCHANGED <<cursor, bank, wad, file, stacks, build, colState, last_y_offset, posts>>

NextCase ==
    \/ CaseOpen
    \/ CaseFile
    \/ CaseStack

SpecCase == InitCase /\ [][NextCase]_vars

\* The last lookup again, with its names in upper case.
UpperResult ==
    IF last.level = "file"
      THEN FileCall(Wad_file(wad.val, last.archive), last.op, Upper(last.name),
                    Upper(last.end), last.size)
    ELSE StackCall(wad.val, last.op, Upper(last.name), Upper(last.end), last.size)

\* Two errors that differ at most in how they spell the names they quote.
SameButSpelling(a, b) ==
    /\ a.err = b.err
    /\ a.path = b.path
    /\ a.desc = b.desc
    /\ Len(a.subject) = Len(b.subject)
    /\ IF a.desc = "found times" THEN a.subject = b.subject
       ELSE \A i \in 1 .. Len(a.subject) : Upper(a.subject[i]) = Upper(b.subject[i])

\* C19 as stated: a lookup by a name gives the same result as the lookup by
\* the name in upper case.
C19_SameResultAsUpper ==
    last.op \in CaseOps => last.res = UpperResult

\* C19: a lookup by a name finds what the lookup by the name in upper case
\* finds: the same lump, block or None, or an error of the same kind, path
\* and description, which quotes the names as the caller spelled them.
C19_SameLookupAsUpper ==
    last.op \in CaseOps =>
        /\ last.res.tag = UpperResult.tag
        /\ last.res.tag # "Err" => last.res = UpperResult
        /\ last.res.tag = "Err" => SameButSpelling(last.res, UpperResult)

\* A stack of two archives has answered a lower-case name with the lump of
\* its patch, whose directory spells the name in upper case.
C19_Witness ==
    /\ last.op = "lump"
    /\ last.level = "stack"
    /\ last.name = LowerB
    /\ last.res.tag = "Ok"
    /\ last.res.val.name = NameB
    /\ last.res.val.file = "killer.wad"

-----------------------------------------------------------------------------
(* SpecError: loaders and lookups fail on stacks of two archives, and the  *)
(* errors are traced to an archive.                                        *)

\* Lumps::error: the Malformed error of the file of the block's first lump.
Lumps_error(lumps, desc, subject) == WadFile_error([path |-> lumps[1].file], desc, subject)

\* lumps with every lump that has the name of one of others replaced by it.
Replaced(lumps, others) ==
    [k \in 1 .. Len(lumps) |->
        IF \E j \in 1 .. Len(others) : others[j].name = lumps[k].name
          THEN others[CHOOSE j \in 1 .. Len(others) : others[j].name = lumps[k].name]
        ELSE lumps[k]]

GameLumps == GoodMap \o AssetLumps

\* Lumps that make a loader fail, alone or together.
BadLumps ==
    {<<L(PLAYPAL, <<1>>)>>,
     <<L(NameA, <<1>>)>>,
     <<L(NameB, TruncatedPatch)>>,
     <<L(PNAMES, <<1, 0>>)>>,
     <<L(PNAMES, PnamesData(1, <<<<200>>>>))>>,
     <<L(TEXTURE1, TextureData(<<TextureBytes(NameC, <<5>>)>>))>>,
     <<L(TEXTURE1, Le32(1))>>,
     <<L(PNAMES, PnamesData(2, <<NameB, NameE>>)),
       L(TEXTURE1, TextureData(<<TextureBytes(NameC, <<1>>)>>))>>,
     <<L(LINEDEFS, LinedefBytes(1, 0, 0, U16Max))>>,
     <<L(SIDEDEFS, SidedefBytes(NameE, NoTexture, NoTexture, 0))>>,
     <<L(SECTORS, SectorBytes(NameA, NameE))>>,
     <<L(VERTEXES, <<1>>)>>}

\* What a patch archive holds in place of the game's lumps.
Overlays ==
    {<<L(PLAYPAL, <<1>>), L(NameE, <<1>>)>>,
     <<L(PLAYPAL, PaletteFill(1, 30)), L(NameE, <<1>>)>>,
     <<L(F_START, <<>>), L(NameA, <<1>>), L(F_END, <<>>)>>,
     <<L(F_START, <<>>), L(NameC, Filled(Flat_size, 1)), L(NameC, Filled(Flat_size, 2)),
       L(F_END, <<>>)>>,
     <<L(NameB, TruncatedPatch)>>,
     <<L(NameB, PatchBytes(9))>>,
     <<L(PNAMES, <<1, 0>>)>>,
     <<L(PNAMES, PnamesData(2, <<NameB, NameE>>))>>,
     <<L(TEXTURE1, TextureData(<<TextureBytes(NameC, <<5>>)>>))>>,
     <<L(TEXTURE2, TextureData(<<TextureBytes(LowerA, <<0>>)>>))>>,
     <<L(PNAMES, PnamesData(2, <<NameB, NameE>>)),
       L(TEXTURE1, TextureData(<<TextureBytes(NameC, <<1>>)>>))>>,
     Replaced(GoodMap, <<L(LINEDEFS, LinedefBytes(1, 0, 0, U16Max))>>),
     Replaced(GoodMap, <<L(SECTORS, SectorBytes(NameE, NameA))>>),
     Replaced(GoodMap, <<L(SIDEDEFS, <<1>>)>>),
     Replaced(GoodMap, <<L(THINGS, <<>>), L(VERTEXES, <<>>)>>),
     <<L(NameE, <<1>>)>>}

ErrorWads ==
    {StackOf(<<F("doom.wad", Archive(MagicIwad, Replaced(GameLumps, bad))),
               F("killer.wad", Archive(MagicPwad, <<L(NameE, <<1>>)>>))>>) :
         bad \in BadLumps}
    \cup {StackOf(<<F("doom.wad", Archive(MagicIwad, GameLumps)),
                    F("killer.wad", Archive(MagicPwad, overlay))>>) :
              overlay \in Overlays}

Loaders == {"PaletteBank::load", "FlatBank::load", "PatchBank::load", "TextureBank::load",
            "Map::load"}

ErrorNames == {PLAYPAL, PNAMES, TEXTURE1, NameA, NameB, NameE, E1M1, E9M9, F_START, F_END,
               LINEDEFS}

InitError == InitPalette

ErrorOpen ==
    /\ wad = None
    /\ \E w \in ErrorWads :
           /\ wad' = Ok(w)
           /\ bank' = MapAssets
           /\ last' = [op |-> "open"]
    /\ UNCHANGED <<cursor, file, stacks, build, colState, last_y_offset, posts>>

\* One of the loaders is run on the stack.
ErrorLoad ==
    /\ wad # None
    /\ \E loader \in Loaders :
           \E result \in {CASE loader = "PaletteBank::load" -> PaletteBank_load(wad.val)
                            [] loader = "FlatBank::load" -> FlatBank_load(wad.val)
                            [] loader = "PatchBank::load" -> PatchBank_load(wad.val, build)
                            [] loader = "TextureBank::load" -> TextureBank_load(wad.val, build)
                            [] loader = "Map::load" -> Map_load(wad.val, E1M1, bank.val)} :
               last' = [op |-> loader, res |-> result]
    /\ UNCHANGED <<cursor, bank, wad, file, stacks, build, colState, last_y_offset, posts>>

\* A caller looks a lump up and blames it, or fails to find it.
ErrorLump ==
    /\ wad # None
    /\ \E name \in ErrorNames :
           \E lump \in {Wad_lump(wad.val, name)} :
               last' = IF lump.tag = "Ok"
                         THEN [op |-> "Lump::error", name |-> name, lump |-> lump.val,
                               res |-> Lump_error(lump.val, "bad data", <<>>)]
                       ELSE [op |-> "lump", name |-> name, res |-> lump]
    /\ UNCHANGED <<cursor, bank, wad, file, stacks, build, colState, last_y_offset, posts>>

\* A caller takes a block and blames it, or fails to find it.
ErrorBlock ==
    /\ wad # None
    /\ \E ends \in {<<F_START, F_END>>, <<E1M1, BLOCKMAP>>, <<E9M9, F_END>>,
                     <<E9M9, NameAB>>} :
           \E block \in {Wad_lumps_between(wad.val, ends[1], ends[2])} :
               last' = IF block.tag = "Ok"
                         THEN [op |-> "Lumps::error", name |-> ends[1], block |-> block.val,
                               res |-> Lumps_error(block.val, "bad block", <<>>)]
                       ELSE [op |-> "lumps_between", name |-> ends[1], end |-> ends[2],
                             res |-> block]
    /\ UNCHANGED <<cursor, bank, wad, file, stacks, build, colState, last_y_offset, posts>>

NextError ==
    \/ ErrorOpen
    \/ ErrorLoad
    \/ ErrorLump
    \/ ErrorBlock

SpecError == InitError /\ [][NextError]_vars

\* The path of the most recently added archive whose directory has name.
HolderPath(name) == Archives[Highest(Holders(name))].path

\* The loaders' lookups all succeed, so that an error of the last load is
\* an error made for a lump.
LookupsSucceed ==
    CASE last.op = "PaletteBank::load" -> Wad_lump(wad.val, PLAYPAL).tag = "Ok"
      [] last.op = "FlatBank::load" -> Wad_lumps_between(wad.val, F_START, F_END).tag = "Ok"
      [] last.op = "PatchBank::load" ->
             /\ Wad_lump(wad.val, PNAMES).tag = "Ok"
             /\ \A name \in {NameB, NameE} : Wad_try_lump(wad.val, name).tag # "Err"
      [] last.op = "TextureBank::load" ->
             /\ PatchBank_load(wad.val, build).tag = "Ok"
             /\ TextureBank_texture_lumps(wad.val).tag = "Ok"
      [] last.op = "Map::load" -> Wad_try_lumps_following(wad.val, E1M1, 11).tag = "Some"
      [] OTHER -> FALSE

\* The name under which the stack resolved the lump an error blames: the
\* lump's own name, or the start marker of the block it is part of.
ResolvedAs ==
    CASE last.op = "FlatBank::load" -> F_START
      [] last.op = "Map::load" -> E1M1
      [] OTHER -> last.res.desc[1]

\* C20: a Malformed error made for a lump has the path of the archive the
\* lump was read from, which in a stack is the layer whose bytes the loader
\* read, and a description that starts with the lump's name; an error made
\* for a block has the path of the archive of the block's first lump; a
\* lookup that finds a name in no archive fails with the initial archive's
\* path.
C20_ErrorsNameTheirArchive ==
    /\ (last.op \in Loaders /\ last.res.tag = "Err" /\ LookupsSucceed) =>
           /\ last.res.err = "Malformed"
           /\ Holders(ResolvedAs) # {}
           /\ last.res.path = HolderPath(ResolvedAs)
           /\ \E k \in 1 .. Len(Archives) :
                  /\ Archives[k].path = last.res.path
                  /\ Contains(Archives[k], last.res.desc[1])
    /\ last.op = "Lump::error" =>
           /\ last.res.err = "Malformed"
           /\ last.res.path = last.lump.file
           /\ last.res.path = HolderPath(last.name)
           /\ last.res.desc[1] = last.lump.name
           /\ last.res.desc[1] = last.name
    /\ last.op = "Lumps::error" =>
           /\ last.res.err = "Malformed"
           /\ last.res.path = last.block[1].file
           /\ last.res.path = HolderPath(last.name)
    /\ (\/ last.op = "lump" /\ Holders(last.name) = {}
        \/ last.op = "lumps_between" /\ Holders(last.name) = {} /\ Holders(last.end) = {}) =>
           /\ last.res.tag = "Err"
           /\ last.res.err = "Malformed"
           /\ last.res.path = wad.val.initial.path

\* A patch list in the base archive names a patch whose lump, in the patch
\* archive, does not decode: the error has the patch archive's path and the
\* patch lump's name.
C20_Witness ==
    /\ last.op = "PatchBank::load"
    /\ last.res.tag = "Err"
    /\ LookupsSucceed
    /\ HolderPath(PNAMES) = "doom.wad"
    /\ last.res.path = "killer.wad"
    /\ last.res.desc[1] = NameB

-----------------------------------------------------------------------------
(* WadFile::lumps: all the lumps of one archive (SpecLumps).               *)

\* read_lumps(0..self.lump_indices.len()): the range ends at the number of
\* keys of the name -> indices map.
WadFile_lumps(self) == read_lumps(self, 0, Cardinality(DOMAIN self.lump_indices))

FileLumps ==
    /\ file.tag = "Ok"
    /\ \E result \in {WadFile_lumps(file.val)} :
           last' = [op |-> "lumps", res |-> result]
    /\ UNCHANGED <<cursor, bank, file, wad, stacks, build, colState, last_y_offset, posts>>

NextLumps ==
    \/ FileLoadRaw
    \/ FileLumps

SpecLumps == InitFile /\ [][NextLumps]_vars

\* C21: lumps() yields every directory entry exactly once, in directory
\* order, as many lumps as the directory has entries, for every loaded
\* archive, also when the directory repeats a name or is empty.
C21_LumpsYieldsDirectory ==
    (Loaded /\ last.op = "lumps") =>
        /\ last.res.tag = "Ok"
        /\ Len(last.res.val) = Count
        /\ \A i \in 0 .. Count - 1 : last.res.val[i + 1] = EntryView(i)

-----------------------------------------------------------------------------
(* The directory entries of the bytes given to load_raw (SpecFile).        *)

RawCount(raw) == from_le_bytes(Slice(raw, 4, 8))
RawDirectory(raw) == from_le_bytes(Slice(raw, 8, 12))
RawEntry(raw, i) ==
    LET entry == Slice(raw, RawDirectory(raw) + EntryLen * i,
                       RawDirectory(raw) + EntryLen * (i + 1))
    IN  [offset |-> from_le_bytes(Slice(entry, 0, 4)),
         size |-> from_le_bytes(Slice(entry, 4, 8)),
         name |-> parse_name(Slice(entry, 8, 16))]

\* The bytes have a header with a known magic and a whole directory.
DirectoryReadable(raw) ==
    /\ Len(raw) >= HeaderLen
    /\ Slice(raw, 0, 4) \in {MagicIwad, MagicPwad}
    /\ RawDirectory(raw) + EntryLen * RawCount(raw) <= Len(raw)

\* C22: the loader accepts an archive exactly when every directory entry
\* has a legal name and offset + size <= buffer length; an entry that ends
\* at the end of the buffer, and an empty entry at the end of the buffer,
\* are accepted.
C22_EntriesUpToBufferEndAccepted ==
    (last.op = "load_raw" /\ DirectoryReadable(last.raw)) =>
        ((last.res.tag = "Ok") <=>
             \A i \in 0 .. RawCount(last.raw) - 1 :
                 /\ is_legal(RawEntry(last.raw, i).name)
                 /\ RawEntry(last.raw, i).offset + RawEntry(last.raw, i).size
                        <= Len(last.raw))

-----------------------------------------------------------------------------
(* SpecColumn: Patch::read_column on the bytes of one column.              *)

MaxColumnPosts == 3

\* The bytes of a post: y, length, unused, pixels, unused.  The unused and
\* pixel bytes are 255, which ends a column only where a y byte is read.
PostBytes(y, length) == <<y, length, 255>> \o [k \in 1 .. length |-> 255] \o <<255>>

RECURSIVE Flatten(_)
Flatten(seqs) == IF seqs = <<>> THEN <<>> ELSE Head(seqs) \o Flatten(Tail(seqs))

ColumnYs == {100, 150, 200}

\* Columns of up to MaxColumnPosts posts: ended by 255, ended by 255 with
\* bytes after it, cut short before the end mark or in the last post.
ColumnInputs ==
    LET Posts == UNION {[1 .. n -> {PostBytes(y, l) : y \in ColumnYs, l \in {0, 1}}] :
                            n \in 0 .. MaxColumnPosts}
    IN  UNION {{Flatten(ps) \o <<ColumnEnd>>,
                Flatten(ps) \o <<ColumnEnd, 100, 0, 0, 0>>,
                Flatten(ps),
                Flatten(ps) \o <<100, 1>>} : ps \in Posts}

InitColumn ==
    /\ build \in {"checked", "unchecked"}
    /\ last \in {[op |-> "bytes", data |-> data] : data \in ColumnInputs}
    /\ colState = "idle"
    /\ last_y_offset = <<>>
    /\ posts = 0
    /\ bank = None
    /\ cursor = None
    /\ file = None
    /\ wad = None
    /\ stacks = <<>>

ColumnRead ==
    /\ last.op = "bytes"
    /\ \E result \in {read_column(last.data, 0, <<>>, <<>>, build)} :
           last' = [op |-> "read_column", data |-> last.data, res |-> result]
    /\ UNCHANGED <<cursor, bank, file, wad, stacks, build, colState, last_y_offset, posts>>

NextColumn == ColumnRead

SpecColumn == InitColumn /\ [][NextColumn]_vars

\* The byte offset at which post k of a decoded column starts (k is
\* 1-based; k = Len(column) + 1 is the offset of the end mark).
RECURSIVE PostStart(_, _)
PostStart(column, k) ==
    IF k = 1 THEN 0 ELSE PostStart(column, k - 1) + 4 + Len(column[k - 1].pixels)

\* The raw y byte of post k.
RawY(data, column, k) == data[PostStart(column, k) + 1]

\* The decoded column is the posts up to the first y byte that is 255.
EndsAtFirstMark(data, column) ==
    /\ \A k \in 1 .. Len(column) : RawY(data, column, k) # ColumnEnd
    /\ RawY(data, column, Len(column) + 1) = ColumnEnd

-----------------------------------------------------------------------------
(* Texture records with the same name (SpecTexture).                       *)

\* The texture records <<lump, texture>> the loader reads, and their names.
AllRecords ==
    {<<i, t>> \in (1 .. Len(TextureLumps.val)) \X (0 .. 2) :
         t < TextureCount(TextureLumps.val[i].data)}
RecordName(r) ==
    parse_name(Slice(TextureLumps.val[r[1]].data,
                     TextureOffset(TextureLumps.val[r[1]].data, r[2]),
                     TextureOffset(TextureLumps.val[r[1]].data, r[2]) + NameLen))

\* The names of the patches record r places, in order.
RecordPatches(r) ==
    [p \in 1 .. PlacementCount(TextureLumps.val[r[1]].data, r[2]) |->
        TexturePatches.val.patches[
            PlacementIndex(TextureLumps.val[r[1]].data, r[2], p - 1) + 1].name]

\* r is read after every other record of its name.
LastOfName(r) ==
    \A q \in AllRecords :
        RecordName(q) = RecordName(r) =>
            (q = r \/ q[1] < r[1] \/ (q[1] = r[1] /\ q[2] < r[2]))

\* C24 as stated: a load succeeds only when the names of the texture
\* records of TEXTURE1 and TEXTURE2 are pairwise distinct.
C24_DuplicateNamesRejected ==
    (last.op = "load" /\ last.res.tag = "Ok") =>
        \A q \in AllRecords, r \in AllRecords : RecordName(q) = RecordName(r) => q = r

\* C24: the names are not checked for collisions; after a successful load
\* the bank holds, under each record's name, the record of that name that
\* was read last (later in a lump, TEXTURE2 after TEXTURE1).
C24_LastRecordOfNameKept ==
    (last.op = "load" /\ last.res.tag = "Ok") =>
        /\ DOMAIN last.res.val.textures = {RecordName(r) : r \in AllRecords}
        /\ \A r \in AllRecords :
               LastOfName(r) =>
                   [k \in 1 .. Len(last.res.val.textures[RecordName(r)].patches) |->
                       last.res.val.textures[RecordName(r)].patches[k].patch.name]
                       = RecordPatches(r)

\* TEXTURE1 and TEXTURE2 each hold a texture A, with different patches; the
\* load succeeds and the bank's A is the one of TEXTURE2.
C24_Witness ==
    /\ last.op = "load"
    /\ last.res.tag = "Ok"
    /\ AllRecords = {<<1, 0>>, <<2, 0>>}
    /\ RecordName(<<1, 0>>) = NameA
    /\ RecordName(<<2, 0>>) = NameA
    /\ RecordPatches(<<1, 0>>) = <<NameA>>
    /\ RecordPatches(<<2, 0>>) = <<NameB>>
    /\ last.res.val.textures[NameA].patches[1].patch.name = NameB

\* C25: a texture lookup upper-cases its key: get(name) and [name] return
\* the texture that the lookup of the upper-cased name returns.
C25_LookupUppercasesKey ==
    /\ last.op = "get" =>
           last.res = IF make_ascii_uppercase(last.name) \in DOMAIN bank.val.textures
                        THEN Some(bank.val.textures[make_ascii_uppercase(last.name)])
                      ELSE None
    /\ last.op = "index" =>
           last.res = IF make_ascii_uppercase(last.name) \in DOMAIN bank.val.textures
                        THEN Ok(bank.val.textures[make_ascii_uppercase(last.name)])
                      ELSE Panic

-----------------------------------------------------------------------------
(* SpecName: parse_name and is_legal on names of 0 to 9 characters.        *)

\* A, Z, 0, 9, the five punctuation marks, and characters next to them in
\* the code table: @, a, z, /, :, ^, space and a NUL.
NameChars == {65, 90, 48, 57, 91, 93, 45, 95, 92, 64, 97, 122, 47, 58, 94, 32, 0}

\* Names of up to two characters, and longer names of one character
\* repeated, some with one character replaced.
NameInputs ==
    UNION {[1 .. n -> NameChars] : n \in 0 .. 2}
    \cup {[k \in 1 .. n |-> IF k = at THEN other ELSE ch] :
              n \in 3 .. NameLen + 1, at \in {1, 3, NameLen}, ch \in {65, 57, 95},
              other \in {65, 97, 92, 0}}

InitName ==
    /\ last \in {[op |-> "name", name |-> name] : name \in NameInputs}
    /\ file = None
    /\ Idle

\* The name is stored NUL-padded in 8 bytes and parsed back.
NameParse ==
    /\ last.op = "name"
    /\ Len(last.name) <= NameLen
    /\ last' = [op |-> "parse_name", name |-> last.name,
                raw |-> Pad(last.name, NameLen),
                res |-> parse_name(Pad(last.name, NameLen)),
                legal |-> is_legal(last.name)]
    /\ UNCHANGED <<cursor, bank, file, wad, stacks, build, colState, last_y_offset, posts>>

\* A name too long to be stored is only tested.
NameTest ==
    /\ last.op = "name"
    /\ Len(last.name) > NameLen
    /\ last' = [op |-> "is_legal", name |-> last.name, legal |-> is_legal(last.name)]
    /\ UNCHANGED <<cursor, bank, file, wad, stacks, build, colState, last_y_offset, posts>>

NextName ==
    \/ NameParse
    \/ NameTest

SpecName == InitName /\ [][NextName]_vars

\* The characters A-Z, 0-9, [ ] - _ and \.
LegalSet == (65 .. 90) \cup (48 .. 57) \cup {91, 93, 45, 95, 92}

\* C26: parse_name gives a legal name back from its NUL-padded 8 bytes,
\* and the result is legal; is_legal is true exactly for names of 1 to 8
\* characters that are all among A-Z, 0-9, [ ] - _ \.
C26_ParsePadIdentityOnLegal ==
    /\ last.op \in {"parse_name", "is_legal"} =>
           (last.legal <=>
                /\ Len(last.name) \in 1 .. 8
                /\ \A i \in 1 .. Len(last.name) : last.name[i] \in LegalSet)
    /\ (last.op = "parse_name" /\ last.legal) =>
           /\ last.res = last.name
           /\ is_legal(last.res)

\* A legal two-character name was padded with six NULs and parsed back.
C26_Witness ==
    /\ last.op = "parse_name"
    /\ last.legal
    /\ last.name = <<65, 92>>
    /\ last.raw = <<65, 92, 0, 0, 0, 0, 0, 0>>
    /\ last.res = last.name

-----------------------------------------------------------------------------
(* Cursor (src/wad/cursor.rs): the unread bytes of a lump.  The bytes that *)
(* remain are the cursor's data; reading drops bytes from the front.       *)

Cursor_new(lump) == [lump |-> lump, data |-> lump.data]

Cursor_need(self, size) ==
    IF Len(self.data) >= size THEN Ok(<<>>)
    ELSE Lump_error(self.lump, "not enough data", <<>>)

\* Bytes::advance, which panics when count is more than what remains.
Cursor_advance(self, count) ==
    IF count > Len(self.data) THEN Panic
    ELSE Ok([self EXCEPT !.data = SubSeq(self.data, count + 1, Len(self.data))])

\* A skip that checks and then does not advance.
Cursor_skip_in_place(self, count) ==
    LET needed(result) ==
            IF result.tag # "Ok" THEN [res |-> result, self |-> Ok(self)]
            ELSE [res |-> Ok(<<>>), self |-> Ok(self)]
    IN  needed(Cursor_need(self, count))

\* The result, and the cursor after the call.
Cursor_skip(self, count) ==
    LET needed(result) ==
            IF result.tag # "Ok" THEN [res |-> result, self |-> Ok(self)]
            ELSE [res |-> Ok(<<>>), self |-> Cursor_advance(self, count)]
    IN  needed(Cursor_need(self, count))

Cursor_done(self) ==
    IF Len(self.data) = 0 THEN Ok(<<>>)
    ELSE Lump_error(self.lump, "too much data", <<>>)

\* Bytes::clear through DerefMut.
Cursor_clear(self) == [self EXCEPT !.data = <<>>]

\* split_to(8) panics when fewer than 8 bytes remain.
Cursor_get_name(self) ==
    IF Len(self.data) < NameLen THEN [res |-> Panic, self |-> Panic]
    ELSE [res |-> Ok(parse_name(SubSeq(self.data, 1, NameLen))),
          self |-> Cursor_advance(self, NameLen)]

\* Buf::get_u16_le through DerefMut panics when fewer than 2 bytes remain.
Cursor_get_u16_le(self) ==
    IF Len(self.data) < 2 THEN [res |-> Panic, self |-> Panic]
    ELSE [res |-> Ok(self.data[1] + 256 * self.data[2]),
          self |-> Cursor_advance(self, 2)]

-----------------------------------------------------------------------------
(* SpecCursor: a caller makes a cursor on a lump and reads from it.        *)

CursorLumps ==
    {[file |-> "in.wad", name |-> NameA, data |-> [k \in 1 .. n |-> 64 + k]] :
         n \in {0, 1, 2, 8, 9, 11}}
CursorSizes == {0, 1, 2, 8, 10, 12}

InitCursor == InitPalette

CursorNew ==
    /\ cursor = None
    /\ \E lump \in CursorLumps :
           /\ cursor' = Some(Cursor_new(lump))
           /\ last' = [op |-> "cursor"]
    /\ UNCHANGED <<bank, wad, file, stacks, build, colState, last_y_offset, posts>>

CursorNeed ==
    /\ cursor # None
    /\ \E size \in CursorSizes :
           last' = [op |-> "need", size |-> size, res |-> Cursor_need(cursor.val, size)]
    /\ UNCHANGED <<cursor, bank, wad, file, stacks, build, colState, last_y_offset, posts>>

CursorSkip ==
    /\ cursor # None
    /\ \E count \in CursorSizes :
           \E result \in {Cursor_skip(cursor.val, count)} :
               /\ last' = [op |-> "skip", size |-> count, res |-> result.res]
               /\ cursor' = Some(result.self.val)
    /\ UNCHANGED <<bank, wad, file, stacks, build, colState, last_y_offset, posts>>

\* done takes the cursor by value: the caller has none afterwards.
CursorDone ==
    /\ cursor # None
    /\ last' = [op |-> "done", res |-> Cursor_done(cursor.val)]
    /\ cursor' = None
    /\ UNCHANGED <<bank, wad, file, stacks, build, colState, last_y_offset, posts>>

CursorClear ==
    /\ cursor # None
    /\ cursor' = Some(Cursor_clear(cursor.val))
    /\ last' = [op |-> "clear"]
    /\ UNCHANGED <<bank, wad, file, stacks, build, colState, last_y_offset, posts>>

\* A read that panics unwinds the caller, which loses the cursor.
CursorGetName ==
    /\ cursor # None
    /\ \E result \in {Cursor_get_name(cursor.val)} :
           /\ last' = [op |-> "get_name", res |-> result.res]
           /\ cursor' = IF result.self.tag = "Ok" THEN Some(result.self.val) ELSE None
    /\ UNCHANGED <<bank, wad, file, stacks, build, colState, last_y_offset, posts>>

CursorGetU16 ==
    /\ cursor # None
    /\ \E result \in {Cursor_get_u16_le(cursor.val)} :
           /\ last' = [op |-> "get_u16_le", res |-> result.res]
           /\ cursor' = IF result.self.tag = "Ok" THEN Some(result.self.val) ELSE None
    /\ UNCHANGED <<bank, wad, file, stacks, build, colState, last_y_offset, posts>>

NextCursor ==
    \/ CursorNew
    \/ CursorNeed
    \/ CursorSkip
    \/ CursorDone
    \/ CursorClear
    \/ CursorGetName
    \/ CursorGetU16

SpecCursor == InitCursor /\ [][NextCursor]_vars

\* The number of bytes the cursor has left.
Remaining(c) == Len(c.val.data)

\* The Malformed error of the cursor's lump with the text desc.
CursorError(c, desc) == Malformed(c.val.lump.file, <<c.val.lump.name, desc>>, <<>>)

\* C27: need(n) succeeds iff at least n bytes remain and leaves the cursor
\* where it is; skip(n) advances by exactly n when need(n) succeeds and
\* fails with 'not enough data' without moving otherwise; the remaining
\* bytes of a cursor never grow; done() is Ok iff no bytes remain and
\* 'too much data' otherwise, and is Ok after clear().
C27_CursorSequential ==
    [][/\ (cursor # None /\ last'.op = "need") =>
              /\ cursor' = cursor
              /\ last'.res = IF Remaining(cursor) >= last'.size THEN Ok(<<>>)
                             ELSE CursorError(cursor, "not enough data")
       /\ (cursor # None /\ last'.op = "skip") =>
              IF Remaining(cursor) >= last'.size
                THEN /\ last'.res = Ok(<<>>)
                     /\ cursor'.val.lump = cursor.val.lump
                     /\ cursor.val.data
                            = SubSeq(cursor.val.data, 1, last'.size) \o cursor'.val.data
              ELSE /\ last'.res = CursorError(cursor, "not enough data")
                   /\ cursor' = cursor
       /\ (cursor # None /\ cursor' # None) => Remaining(cursor') <= Remaining(cursor)
       /\ (cursor # None /\ last'.op = "done") =>
              last'.res = IF Remaining(cursor) = 0 THEN Ok(<<>>)
                          ELSE CursorError(cursor, "too much data")
       /\ (cursor # None /\ last'.op = "clear") => Remaining(cursor') = 0
       /\ (last.op = "clear" /\ last'.op = "done") => last'.res = Ok(<<>>)]_vars

\* A skip of 2 has succeeded after a read of a name on the 11-byte lump,
\* and one byte is left.
C27_Witness ==
    /\ cursor # None
    /\ last.op = "skip"
    /\ last.size = 2
    /\ last.res = Ok(<<>>)
    /\ Len(cursor.val.lump.data) = 11
    /\ cursor.val.data = <<75>>

-----------------------------------------------------------------------------
(* Errors of a patch in a stack lookup (Spec).                             *)

\* What the try_ form of the last lookup returns on archive k of the stack.
TriedAt(k) ==
    CASE last.op \in LumpOps -> WadFile_try_lump(Archives[k], last.name)
      [] last.op \in FollowingOps ->
             WadFile_try_lumps_following(Archives[k], last.name, last.size)
      [] last.op \in BetweenOps ->
             WadFile_try_lumps_between(Archives[k], last.name, last.end)

\* The archives on which the try_ form does not return None.
Answering == {k \in 1 .. Len(Archives) : TriedAt(k).tag # "None"}

\* C28: when the last-added archive that answers a lookup is a patch and
\* answers with an error, every form of the lookup returns that error,
\* whatever the archives before it hold.
C28_PatchErrorIsReturned ==
    (wad.tag = "Ok" /\ last.op \in LumpOps \cup BlockOps) =>
        \A k \in 2 .. Len(Archives) :
            (/\ TriedAt(k).tag = "Err"
             /\ \A j \in (k + 1) .. Len(Archives) : TriedAt(j).tag = "None") =>
                last.res = TriedAt(k)

\* The last patch has one range marker without the other and the initial
\* archive has the whole range: the lookup fails with the patch's error.
C28_Witness ==
    /\ wad.tag = "Ok"
    /\ last.op = "lumps_between"
    /\ Len(Archives) >= 2
    /\ TriedAt(Len(Archives)).tag = "Err"
    /\ TriedAt(Len(Archives)).desc = "without"
    /\ TriedAt(1).tag = "Some"
    /\ last.res = TriedAt(Len(Archives))

\* C29: the effective y-offset of a post, previous effective offset + raw
\* offset on 16 bits, stays <= 65535: no post makes the addition overflow.
C29_YOffsetAdditionFits ==
    [][(/\ colState = "reading"
        /\ last'.op = "post"
        /\ last_y_offset # <<>>
        /\ last'.raw_y <= last_y_offset[1]) =>
           last_y_offset[1] + last'.raw_y <= U16Max]_vars

-----------------------------------------------------------------------------
(* The strict lookups and their try_ forms (SpecCase).                     *)

StrictOps == {"lump", "lumps_following", "lumps_between"}

TryForm(op) ==
    CASE op = "lump" -> "try_lump"
      [] op = "lumps_following" -> "try_lumps_following"
      [] op = "lumps_between" -> "try_lumps_between"

\* The try_ form of the last lookup, on the same archive or stack.
TriedResult ==
    IF last.level = "file"
      THEN FileCall(Wad_file(wad.val, last.archive), TryForm(last.op), last.name,
                    last.end, last.size)
    ELSE StackCall(wad.val, TryForm(last.op), last.name, last.end, last.size)

\* The result is the error a strict form makes of a None.
IsMissing(res) ==
    /\ res.tag = "Err"
    /\ res.err = "Malformed"
    /\ res.desc \in {"missing", "and missing"}

\* C30: on every archive and stack a strict lookup returns Ok(x) exactly
\* when its try_ form returns Some(x), a 'missing' error exactly when the
\* try_ form returns None, and the try_ form's error when it fails.
C30_StrictAgreesWithTry ==
    last.op \in StrictOps =>
        /\ TriedResult.tag = "Some" => last.res = Ok(TriedResult.val)
        /\ TriedResult.tag = "None" =>
               /\ IsMissing(last.res)
               /\ last.res.path = Wad_file(wad.val, last.archive).path
        /\ TriedResult.tag = "Err" => last.res = TriedResult
        /\ last.res.tag = "Ok" => TriedResult = Some(last.res.val)
        /\ IsMissing(last.res) => TriedResult = None

\* lumps_between on the stack: no archive has either marker, the try_ form
\* returns None and the strict form the initial archive's error.
C30_Witness ==
    /\ last.op = "lumps_between"
    /\ last.level = "stack"
    /\ Len(wad.val.patches) = 1
    /\ TriedResult = None
    /\ IsMissing(last.res)
    /\ last.res.path = wad.val.initial.path

====
